---------------------------- MODULE Spec2Model ----------------------------
(***************************************************************************)
(* A model of the greenwashing detector: the reply decoding of             *)
(* modules/ai_handler.py, the result evaluation it feeds, the PDF and      *)
(* video adapters, and the session handlers of app.py.                     *)
(*                                                                         *)
(* Text is a sequence of one-character strings, so that Python's slices    *)
(* and json.loads act on it character by character.  A Python value is a   *)
(* record of one field that names its type: [null |-> TRUE], [bool |-> b], *)
(* [num |-> n], [str |-> s], [arr |-> <<...>>], [obj |-> [key |-> value]]. *)
(***************************************************************************)
EXTENDS Integers, Sequences, FiniteSets, TLC

VARIABLES
    model_type,         \* AIHandler.model_type: "claude" or "openai"
    response,           \* what the client call produced: a response envelope or an exception
    ai_response,        \* the value analyze_text / analyze_image returned
    pc,                 \* position of the pure pipeline specifications
    eval_input,         \* the argument of evaluate_result (SpecEval)
    result,             \* the value evaluate_result returned
    current_result,     \* st.session_state.current_result
    diagnosis_history,  \* st.session_state.diagnosis_history
    show_examples,      \* st.session_state.show_examples
    show_history,       \* st.session_state.show_history
    clock,              \* datetime.now()
    reply_src,          \* what the backend wrote: the layout and body of its reply text
    last,               \* what the last handler run did (observation of one user action)
    tmp_files,          \* the files the video adapters created with delete=False and not yet unlinked
    captures,           \* the cv2.VideoCapture / VideoFileClip objects opened and not yet released
    frames,             \* analyze_video_content: the timestamps of the frames extracted
    frame_replies,      \* analyze_video_content: the frame_result of each analyze_image call
    running,            \* the browser session whose script run is observed
    peer,               \* st.session_state of the other browser session
    secrets,            \* st.secrets: the spreadsheet, the worksheet name, the service account
    worksheet,          \* the target worksheet of the spreadsheet: whether it exists, and its rows
    exporters,          \* export_results: the position and locals of each call in progress
    pdf_replies         \* analyze_pdf_content: what analyze_text and analyze_image returned

vars == <<model_type, response, ai_response, pc, eval_input, result,
          current_result, diagnosis_history, show_examples, show_history,
          clock, reply_src, last, tmp_files, captures, frames, frame_replies,
          running, peer, secrets, worksheet, exporters, pdf_replies>>

None == [null |-> TRUE]
Num(n) == [num |-> n]
Str(s) == [str |-> s]
Bool(b) == [bool |-> b]
Arr(a) == [arr |-> a]
Obj(f) == [obj |-> f]
TypeOf(v) == CHOOSE k \in DOMAIN v : TRUE
IsNone(v) == TypeOf(v) = "null"
IsNum(v) == TypeOf(v) = "num"
IsStr(v) == TypeOf(v) = "str"
IsArr(v) == TypeOf(v) = "arr"
IsDict(v) == TypeOf(v) = "obj"
EmptyDict == [k \in {} |-> None]
\* a local that holds nothing: the call that binds it has not run
Unset == [unset |-> TRUE]

Max(a, b) == IF a >= b THEN a ELSE b
Min(a, b) == IF a <= b THEN a ELSE b

(***************************************************************************)
(* Python str operations used by the decoder.                              *)
(***************************************************************************)
\* str.isspace() characters of the model's alphabet
PyWhitespace == {" ", "\n", "\t", "\r", "\f"}

RECURSIVE lstrip(_)
lstrip(s) ==
    IF s # <<>> /\ Head(s) \in PyWhitespace THEN lstrip(Tail(s)) ELSE s

RECURSIVE rstrip(_)
rstrip(s) ==
    IF s # <<>> /\ s[Len(s)] \in PyWhitespace
    THEN rstrip(SubSeq(s, 1, Len(s) - 1))
    ELSE s

strip(s) == rstrip(lstrip(s))

startswith(s, p) == Len(s) >= Len(p) /\ SubSeq(s, 1, Len(p)) = p
endswith(s, p) == Len(s) >= Len(p) /\ SubSeq(s, Len(s) - Len(p) + 1, Len(s)) = p

\* s[n:]
SliceFrom(s, n) == SubSeq(s, Min(n, Len(s)) + 1, Len(s))
\* s[:n]
SliceTo(s, n) == SubSeq(s, 1, Min(n, Len(s)))
\* s[:-n]
SliceDropLast(s, n) == SubSeq(s, 1, Max(Len(s) - n, 0))

\* the backquote character, U+0060 (the lexer accepts none inside a string)
BT == "<bq>"
FenceJson == <<BT, BT, BT, "j", "s", "o", "n">>
Fence == <<BT, BT, BT>>
FenceJsonLen == 7
FenceLen == 3
RawPrefixLen == 500


(***************************************************************************)
(* json.loads: the decoder the standard library applies to result_text.   *)
(* Positions are 0-based as in Python; s[i + 1] is Python's s[i].          *)
(* A parse step yields [ok |-> TRUE, val, end] or [ok |-> FALSE, msg, pos] *)
(* (the JSONDecodeError it raises).  The alphabet has no backslash, so     *)
(* string escapes do not occur; numbers are integers.                      *)
(***************************************************************************)
DQ == "\""
JsonWhitespace == {" ", "\t", "\n", "\r"}
ControlChars == {"\n", "\t", "\r", "\f"}
Digits == {"0", "1", "2", "3", "4", "5", "6", "7", "8", "9"}
DigitVal(c) ==
    CASE c = "0" -> 0 [] c = "1" -> 1 [] c = "2" -> 2 [] c = "3" -> 3
      [] c = "4" -> 4 [] c = "5" -> 5 [] c = "6" -> 6 [] c = "7" -> 7
      [] c = "8" -> 8 [] c = "9" -> 9

ParseOk(v, e) == [ok |-> TRUE, val |-> v, end |-> e]
ParseErr(m, p) == [ok |-> FALSE, msg |-> m, pos |-> p]

\* s[i:i+1]
CharAt(s, i) == IF i >= 0 /\ i < Len(s) THEN s[i + 1] ELSE ""

\* WHITESPACE.match(s, i).end()
RECURSIVE skipws(_, _)
skipws(s, i) ==
    IF i < Len(s) /\ s[i + 1] \in JsonWhitespace THEN skipws(s, i + 1) ELSE i

\* scanstring(s, end): i is the position after the opening quote, begin the quote's
RECURSIVE scanstring(_, _, _, _)
scanstring(s, i, begin, acc) ==
    IF i >= Len(s) THEN ParseErr("Unterminated string starting at", begin)
    ELSE IF s[i + 1] = DQ THEN ParseOk(acc, i + 1)
    ELSE IF s[i + 1] \in ControlChars THEN ParseErr("Invalid control character at", i)
    ELSE scanstring(s, i + 1, begin, acc \o s[i + 1])

\* the digits of NUMBER_RE's integer part after the first one
RECURSIVE scandigits(_, _, _)
scandigits(s, i, acc) ==
    IF i < Len(s) /\ s[i + 1] \in Digits
    THEN scandigits(s, i + 1, 10 * acc + DigitVal(s[i + 1]))
    ELSE ParseOk(acc, i)

\* NUMBER_RE.match(s, idx): -?(?:0|[1-9]\d*)
match_number(s, idx) ==
    LET neg == CharAt(s, idx) = "-"
        st == IF neg THEN idx + 1 ELSE idx
        c == CharAt(s, st)
        body == IF c = "0" THEN ParseOk(0, st + 1)
                ELSE scandigits(s, st + 1, DigitVal(c))
    IN  IF c \notin Digits THEN ParseErr("Expecting value", idx)
        ELSE ParseOk(Num(IF neg THEN 0 - body.val ELSE body.val), body.end)

SetKey(d, k, v) == [x \in DOMAIN d \cup {k} |-> IF x = k THEN v ELSE d[x]]

RECURSIVE scan_once(_, _), JSONObject(_, _), ObjectLoop(_, _, _),
          JSONArray(_, _), ArrayLoop(_, _, _)

\* scan_once(s, idx); its StopIteration(idx) is what every caller turns into
\* JSONDecodeError("Expecting value", s, idx)
scan_once(s, idx) ==
    LET c == CharAt(s, idx) IN
    IF c = DQ THEN
        LET r == scanstring(s, idx + 1, idx, "") IN
        IF r.ok THEN ParseOk(Str(r.val), r.end) ELSE r
    ELSE IF c = "{" THEN JSONObject(s, idx + 1)
    ELSE IF c = "[" THEN JSONArray(s, idx + 1)
    ELSE IF c = "n" /\ SubSeq(s, idx + 1, Min(idx + 4, Len(s))) = <<"n", "u", "l", "l">>
        THEN ParseOk(None, idx + 4)
    ELSE IF c = "t" /\ SubSeq(s, idx + 1, Min(idx + 4, Len(s))) = <<"t", "r", "u", "e">>
        THEN ParseOk(Bool(TRUE), idx + 4)
    ELSE IF c = "f" /\ SubSeq(s, idx + 1, Min(idx + 5, Len(s))) = <<"f", "a", "l", "s", "e">>
        THEN ParseOk(Bool(FALSE), idx + 5)
    ELSE match_number(s, idx)

\* JSONObject((s, end)): end is the position after the opening brace
JSONObject(s, end0) ==
    LET e1 == IF CharAt(s, end0) # DQ THEN skipws(s, end0) ELSE end0
        c == CharAt(s, e1)
    IN  IF c = "}" THEN ParseOk(Obj(EmptyDict), e1 + 1)
        ELSE IF c # DQ
            THEN ParseErr("Expecting property name enclosed in double quotes", e1)
        ELSE ObjectLoop(s, e1 + 1, EmptyDict)

\* the while-loop of JSONObject: i is the position after a key's opening quote
ObjectLoop(s, i, acc) ==
    LET k == scanstring(s, i, i - 1, "") IN
    IF ~k.ok THEN k ELSE
    LET e1 == IF CharAt(s, k.end) # ":" THEN skipws(s, k.end) ELSE k.end IN
    IF CharAt(s, e1) # ":" THEN ParseErr("Expecting ':' delimiter", e1) ELSE
    LET e2 == skipws(s, e1 + 1)
        val == scan_once(s, e2)
    IN
    IF ~val.ok THEN val ELSE
    LET acc2 == SetKey(acc, k.val, val.val)
        e3 == skipws(s, val.end)
        nextchar == CharAt(s, e3)
    IN
    IF nextchar = "}" THEN ParseOk(Obj(acc2), e3 + 1)
    ELSE IF nextchar # "," THEN ParseErr("Expecting ',' delimiter", e3)
    ELSE LET e4 == skipws(s, e3 + 1) IN
         IF CharAt(s, e4) # DQ
         THEN ParseErr("Expecting property name enclosed in double quotes", e4)
         ELSE ObjectLoop(s, e4 + 1, acc2)

\* JSONArray((s, end)): end is the position after the opening bracket
JSONArray(s, end0) ==
    LET e1 == skipws(s, end0) IN
    IF CharAt(s, e1) = "]" THEN ParseOk(Arr(<<>>), e1 + 1)
    ELSE ArrayLoop(s, e1, <<>>)

\* the while-loop of JSONArray: i is the position of the next element
ArrayLoop(s, i, acc) ==
    LET val == scan_once(s, i) IN
    IF ~val.ok THEN val ELSE
    LET acc2 == Append(acc, val.val)
        e1 == skipws(s, val.end)
        nextchar == CharAt(s, e1)
    IN
    IF nextchar = "]" THEN ParseOk(Arr(acc2), e1 + 1)
    ELSE IF nextchar # "," THEN ParseErr("Expecting ',' delimiter", e1)
    ELSE ArrayLoop(s, skipws(s, e1 + 1), acc2)

\* JSONDecoder.decode(s): raw_decode at the first non-blank, then no extra data
json_loads(s) ==
    LET r == scan_once(s, skipws(s, 0)) IN
    IF ~r.ok THEN r ELSE
    LET e == skipws(s, r.end) IN
    IF e # Len(s) THEN ParseErr("Extra data", e) ELSE r


(***************************************************************************)
(* str(e) of a JSONDecodeError: "%s: line %d column %d (char %d)".         *)
(***************************************************************************)
RECURSIVE CountNewlines(_, _)
CountNewlines(s, n) ==
    IF n <= 0 THEN 0
    ELSE (IF s[n] = "\n" THEN 1 ELSE 0) + CountNewlines(s, n - 1)

\* doc.rindex('\n', 0, pos), or -1 when there is none
RECURSIVE LastNewline(_, _)
LastNewline(s, n) ==
    IF n <= 0 THEN 0 - 1
    ELSE IF s[n] = "\n" THEN n - 1 ELSE LastNewline(s, n - 1)

JSONDecodeError(m, doc, p) ==
    [msg |-> m,
     lineno |-> CountNewlines(doc, p) + 1,
     colno |-> IF LastNewline(doc, p) < 0 THEN p + 1 ELSE p - LastNewline(doc, p),
     pos |-> p]

RECURSIVE DecLen(_)
DecLen(n) == IF n < 10 THEN 1 ELSE 1 + DecLen(n \div 10)

\* len(str(e))
ErrStrLen(e) ==
    Len(e.msg) + Len(": line ") + DecLen(e.lineno) + Len(" column ")
        + DecLen(e.colno) + Len(" (char ") + DecLen(e.pos) + Len(")")

\* two more kinds of Python str: str(e), kept as the error's parts, and a piece
\* of reply text, kept as its characters
ErrStr(e) == [errstr |-> e]
Text(cs) == [text |-> cs]

(***************************************************************************)
(* AIHandler.analyze_text and AIHandler.analyze_image.  The client call    *)
(* either raises or returns the backend's envelope: a Claude message       *)
(* [content |-> <<[text |-> ...]>>] or an OpenAI completion                 *)
(* [choices |-> <<[message |-> [content |-> ...]]>>].                       *)
(***************************************************************************)
JSON_PARSE_ERROR == "JSON parse error"      \* the literal of ai_handler.py:81
API_CALL_ERROR == "API call error"          \* the literal of ai_handler.py:87

\* a decoder that looks for the generic fence before the annotated one
StripFence_GenericFirst(text) ==
    LET t1 == strip(text)
        t2 == IF startswith(t1, Fence) THEN SliceFrom(t1, FenceLen) ELSE t1
        t3 == IF startswith(t2, FenceJson) THEN SliceFrom(t2, FenceJsonLen) ELSE t2
        t4 == IF endswith(t3, Fence) THEN SliceDropLast(t3, FenceLen) ELSE t3
    IN  strip(t4)

\* lines 68-75: strip, drop the opening fence, drop the closing fence, strip
StripFence(text) ==
    LET t1 == strip(text)
        t2 == IF startswith(t1, FenceJson) THEN SliceFrom(t1, FenceJsonLen) ELSE t1
        t3 == IF startswith(t2, Fence) THEN SliceFrom(t2, FenceLen) ELSE t2
        t4 == IF endswith(t3, Fence) THEN SliceDropLast(t3, FenceLen) ELSE t3
    IN  strip(t4)

\* lines 162-169, the same steps in analyze_image
StripFenceImage(text) ==
    LET t1 == strip(text)
        t2 == IF startswith(t1, FenceJson) THEN SliceFrom(t1, FenceJsonLen) ELSE t1
        t3 == IF startswith(t2, Fence) THEN SliceFrom(t2, FenceLen) ELSE t2
        t4 == IF endswith(t3, Fence) THEN SliceDropLast(t3, FenceLen) ELSE t3
    IN  strip(t4)

\* a failure value that carries the whole text
DecodeFailure_Untruncated(e, result_text) ==
    Obj([error |-> Str(JSON_PARSE_ERROR),
         details |-> ErrStr(e),
         raw_response |-> Text(result_text)])

\* the except clauses
DecodeFailure(e, result_text) ==
    Obj([error |-> Str(JSON_PARSE_ERROR),
         details |-> ErrStr(e),
         raw_response |-> Text(SliceTo(result_text, RawPrefixLen))])

\* an AIHandler whose except clause lets the exception of the client escape
CallFailure_Reraise(exc) == [exception |-> exc]

\* except Exception: the exception's text, returned
CallFailure(exc) ==
    Obj([error |-> Str(API_CALL_ERROR), details |-> Str(exc)])

\* result_text as each backend's envelope carries it
ResultText(mt, resp) ==
    IF mt = "claude" THEN resp.content[1].text
    ELSE resp.choices[1].message.content

analyze_text(mt, resp) ==
    IF resp.raised THEN CallFailure(resp.exc)
    ELSE LET result_text == StripFence(ResultText(mt, resp))
             r == json_loads(result_text)
         IN  IF r.ok THEN r.val
             ELSE DecodeFailure(JSONDecodeError(r.msg, result_text, r.pos), result_text)

analyze_image(mt, resp) ==
    IF resp.raised THEN CallFailure(resp.exc)
    ELSE LET result_text == StripFenceImage(ResultText(mt, resp))
             r == json_loads(result_text)
         IN  IF r.ok THEN r.val
             ELSE DecodeFailure(JSONDecodeError(r.msg, result_text, r.pos), result_text)


(***************************************************************************)
(* The backend's side: the reply texts the model can produce.  A reply is  *)
(* a body, JSON text written from a value tree or text that is no JSON,    *)
(* inside optional fences and blanks.  A tree keeps an object's members as *)
(* a sequence of <<key, value>> in the order they are written; strings are *)
(* character sequences.                                                    *)
(***************************************************************************)
LongLen == 510
MaxViolations == 2

K_violations == <<"v", "i", "o", "l", "a", "t", "i", "o", "n", "s">>
K_recommendations == <<"r", "e", "c", "o", "m", "m", "e", "n", "d", "a", "t", "i", "o", "n", "s">>
K_summary == <<"s", "u", "m", "m", "a", "r", "y">>
K_score == <<"s", "c", "o", "r", "e">>
K_overall_risk == <<"o", "v", "e", "r", "a", "l", "l", "_", "r", "i", "s", "k">>
K_points_deducted == <<"p", "o", "i", "n", "t", "s", "_", "d", "e", "d", "u", "c", "t", "e", "d">>
K_category == <<"c", "a", "t", "e", "g", "o", "r", "y">>
K_error == <<"e", "r", "r", "o", "r">>
K_details == <<"d", "e", "t", "a", "i", "l", "s">>

S_ok == <<"o", "k">>
S_HighRisk == <<"H", "i", "g", "h", " ", "R", "i", "s", "k">>
S_MediumRisk == <<"M", "e", "d", "i", "u", "m", " ", "R", "i", "s", "k">>
S_abc == <<"a", "b", "c">>
S_c41 == <<"4", ".", "1">>
S_fenced == <<"x", BT, BT, BT, "y">>
S_boom == <<"b", "o", "o", "m">>

SObj(pairs) == [members |-> pairs]
SArr(items) == [items |-> items]
SStr(cs) == [chars |-> cs]

RECURSIVE DecDigits(_)
DecDigits(n) ==
    LET d == CHOOSE c \in Digits : DigitVal(c) = n % 10 IN
    IF n < 10 THEN <<d>> ELSE DecDigits(n \div 10) \o <<d>>

\* the JSON text of a tree, with sep written after every punctuation mark
RECURSIVE Serialize(_, _), SerializeItems(_, _, _), SerializePairs(_, _, _)
Serialize(v, sep) ==
    CASE TypeOf(v) = "null" -> <<"n", "u", "l", "l">>
      [] TypeOf(v) = "bool" ->
            IF v.bool THEN <<"t", "r", "u", "e">> ELSE <<"f", "a", "l", "s", "e">>
      [] TypeOf(v) = "num" ->
            IF v.num < 0 THEN <<"-">> \o DecDigits(0 - v.num) ELSE DecDigits(v.num)
      [] TypeOf(v) = "chars" -> <<DQ>> \o v.chars \o <<DQ>>
      [] TypeOf(v) = "items" ->
            <<"[">> \o sep \o SerializeItems(v.items, sep, 1) \o <<"]">>
      [] TypeOf(v) = "members" ->
            <<"{">> \o sep \o SerializePairs(v.members, sep, 1) \o <<"}">>

SerializeItems(items, sep, i) ==
    IF i > Len(items) THEN <<>>
    ELSE Serialize(items[i], sep) \o sep
         \o (IF i < Len(items) THEN <<",">> \o sep ELSE <<>>)
         \o SerializeItems(items, sep, i + 1)

SerializePairs(pairs, sep, i) ==
    IF i > Len(pairs) THEN <<>>
    ELSE <<DQ>> \o pairs[i][1] \o <<DQ>> \o sep \o <<":">> \o sep
         \o Serialize(pairs[i][2], sep) \o sep
         \o (IF i < Len(pairs) THEN <<",">> \o sep ELSE <<>>)
         \o SerializePairs(pairs, sep, i + 1)

RECURSIVE Join(_)
Join(cs) == IF cs = <<>> THEN "" ELSE Head(cs) \o Join(Tail(cs))

\* the value a tree denotes: what a correct JSON reader makes of its text
RECURSIVE Denote(_), DenotePairs(_, _)
Denote(v) ==
    CASE TypeOf(v) = "chars" -> Str(Join(v.chars))
      [] TypeOf(v) = "items" -> Arr([i \in 1..Len(v.items) |-> Denote(v.items[i])])
      [] TypeOf(v) = "members" -> Obj(DenotePairs(v.members, Len(v.members)))
      [] OTHER -> v

DenotePairs(pairs, n) ==
    IF n = 0 THEN EmptyDict
    ELSE SetKey(DenotePairs(pairs, n - 1), Join(pairs[n][1]), Denote(pairs[n][2]))

\* the points_deducted entries a violation can carry; <<>> stands for none
PointsChoices == {<<>>, <<Num(0)>>, <<Num(30)>>, <<Num(100)>>, <<SStr(S_abc)>>, <<None>>}

SViolation(p) ==
    SObj(<<<<K_category, SStr(S_c41)>>>>
         \o (IF p = <<>> THEN <<>> ELSE <<<<K_points_deducted, p[1]>>>>))

\* violation lists of at most n entries
RECURSIVE SViolationLists(_)
SViolationLists(n) ==
    IF n = 0 THEN {<<>>}
    ELSE LET shorter == SViolationLists(n - 1) IN
         shorter \cup {Append(l, SViolation(p)) :
                           l \in {x \in shorter : Len(x) = n - 1}, p \in PointsChoices}

ScoreChoices == {<<>>, <<Num(50)>>, <<Num(95)>>}
RiskChoices == {<<>>, <<SStr(S_HighRisk)>>}

\* a reply as the rubric asks for it: violations, recommendations, summary, and
\* optionally score and overall_risk (<<>> stands for a member left out)
RubricObject(vs, sc, rk) ==
    SObj((IF vs = <<>> THEN <<>> ELSE <<<<K_violations, SArr(vs[1])>>>>)
         \o <<<<K_recommendations, SArr(<<>>)>>, <<K_summary, SStr(S_ok)>>>>
         \o (IF sc = <<>> THEN <<>> ELSE <<<<K_score, sc[1]>>>>)
         \o (IF rk = <<>> THEN <<>> ELSE <<<<K_overall_risk, rk[1]>>>>))

SRubricObjects ==
    {RubricObject(vs, sc, rk) :
        vs \in {<<>>} \cup {<<l>> : l \in SViolationLists(MaxViolations)},
        sc \in ScoreChoices, rk \in RiskChoices}

\* other JSON objects: empty, nested, a repeated key, backquotes inside a string,
\* and one shaped like the decoder's own failure value
SOtherObjects ==
    {SObj(<<>>),
     SObj(<<<<K_summary, SStr(S_fenced)>>>>),
     SObj(<<<<K_score, Num(1)>>, <<K_details, SObj(<<<<K_score, None>>>>)>>,
            <<K_score, Num(0 - 7)>>>>),
     SObj(<<<<K_error, SStr(S_boom)>>>>),
     SObj(<<<<K_violations, Bool(TRUE)>>, <<K_summary, SArr(<<Num(20), Bool(FALSE)>>)>>>>)}

\* the objects whose text the decoder is run on
SDecodeObjects ==
    SOtherObjects
    \cup {RubricObject(vs, sc, <<>>) :
            vs \in {<<>>, <<<<>>>>, <<<<SViolation(<<Num(30)>>)>>>>,
                    <<<<SViolation(<<>>), SViolation(<<SStr(S_abc)>>)>>>>},
            sc \in ScoreChoices}

\* JSON texts that are no object
SNonObjects ==
    {SArr(<<>>), SArr(<<Num(1)>>), SArr(<<SObj(<<<<K_score, Num(1)>>>>)>>),
     Num(5), SStr(S_ok), None, Bool(TRUE)}

\* texts that are no JSON whatever fences and blanks surround them
GarbageBodies ==
    {<<>>,
     <<"n", "o", "t", " ", "j", "s", "o", "n", " ", "a", "t", " ", "a", "l", "l">>,
     <<"{">>,
     <<"{", DQ, "a", DQ>>,
     <<"{", DQ, "a", DQ, ":", "}">>,
     <<"[", "1", ",">>,
     <<"{", DQ, "a", DQ, ":", "1", ",", "}">>,
     <<"n", "u", "l">>,
     <<"-">>,
     <<"{", "}", "x">>,
     <<"0", "1">>,
     <<DQ, "a", "b", "c">>,
     <<"{", DQ, "a", DQ, " ", "1", "}">>,
     <<"[", "1", " ", "2", "]">>,
     <<"a", BT, BT, BT, "b">>,
     <<"{", "'", "a", "'", ":", "1", "}">>,
     <<DQ, "a", "\n", "b", DQ>>,
     [i \in 1..LongLen |-> "x"]}

SepChoices == {<<>>, <<"\n", " ">>}
PadChoices == {<<>>, <<" ", "\n">>, <<"\f">>}
TailPadChoices == {<<>>, <<"\n", "\t">>}
OpenChoices == {<<>>, FenceJson, Fence}
CloseChoices == {<<>>, Fence}

JsonBody(tree, sp) == [json |-> TRUE, tree |-> tree, sep |-> sp]
GarbageBody(cs) == [json |-> FALSE, chars |-> cs]
BodyText(b) == IF b.json THEN Serialize(b.tree, b.sep) ELSE b.chars

Layouts ==
    [lead : PadChoices, open : OpenChoices, mid : PadChoices,
     pre : TailPadChoices, close : CloseChoices, trail : TailPadChoices]

Reply(lay, b) == [raised |-> FALSE, layout |-> lay, body |-> b]
ClientError == [raised |-> TRUE, exc |-> "Connection error."]

ReplyText(src) ==
    src.layout.lead \o src.layout.open \o src.layout.mid \o BodyText(src.body)
        \o src.layout.pre \o src.layout.close \o src.layout.trail

\* the envelope in which each backend's client hands the reply text over
Envelope(mt, src) ==
    IF src.raised THEN [raised |-> TRUE, exc |-> src.exc]
    ELSE IF mt = "claude"
        THEN [raised |-> FALSE, content |-> <<[text |-> ReplyText(src)]>>]
        ELSE [raised |-> FALSE,
              choices |-> <<[message |-> [content |-> ReplyText(src)]]>>]

ModelTypes == {"claude", "openai"}


(***************************************************************************)
(* SpecDecode: the decoder alone.  The initial state holds a client        *)
(* response of the chosen backend; one step applies analyze_text or        *)
(* analyze_image to it.                                                    *)
(***************************************************************************)
NoObservation == [op |-> "none"]

DecodeBodies ==
    {JsonBody(tr, sp) : tr \in SDecodeObjects \cup SNonObjects, sp \in SepChoices}
    \cup {GarbageBody(cs) : cs \in GarbageBodies}

DecodeSources ==
    {Reply(lay, b) : lay \in Layouts, b \in DecodeBodies} \cup {ClientError}

\* app.py 49-53: the session state of a browser session that has just opened
\* app.py 181-182: no SPREADSHEET_ID among the secrets, the default worksheet
\* name, no service account
NoSecrets == [spreadsheet_id |-> "", worksheet_name |-> "results", credentials |-> FALSE]

\* the spreadsheet has no worksheet of the configured name
NoWorksheet == [exists |-> FALSE, rows |-> <<>>]
Worksheet(rows) == [exists |-> TRUE, rows |-> rows]

NewSession ==
    [current_result |-> None, diagnosis_history |-> <<>>,
     show_examples |-> FALSE, show_history |-> FALSE]

SessionIdle ==
    /\ current_result = None
    /\ diagnosis_history = <<>>
    /\ show_examples = FALSE
    /\ show_history = FALSE
    /\ clock = 0
    /\ last = NoObservation
    /\ tmp_files = {}
    /\ captures = 0
    /\ running = 1
    /\ secrets = NoSecrets
    /\ worksheet = NoWorksheet
    /\ exporters = <<>>
    /\ pdf_replies = <<>>
    /\ peer = NewSession
    /\ frames = <<>>
    /\ frame_replies = <<>>

InitDecode ==
    /\ model_type \in ModelTypes
    /\ reply_src \in DecodeSources
    /\ response = Envelope(model_type, reply_src)
    /\ ai_response = Unset
    /\ pc = "call"
    /\ eval_input = Unset
    /\ result = Unset
    /\ SessionIdle

AnalyzeText ==
    /\ pc = "call"
    /\ ai_response' = analyze_text(model_type, response)
    /\ pc' = "analyze_text"
    /\ UNCHANGED <<model_type, response, reply_src, eval_input, result,
                   current_result, diagnosis_history, show_examples,
                   show_history, clock, last, tmp_files, captures,
                   frames, frame_replies, running, peer, secrets, worksheet, exporters,
                   pdf_replies>>

AnalyzeImage ==
    /\ pc = "call"
    /\ ai_response' = analyze_image(model_type, response)
    /\ pc' = "analyze_image"
    /\ UNCHANGED <<model_type, response, reply_src, eval_input, result,
                   current_result, diagnosis_history, show_examples,
                   show_history, clock, last, tmp_files, captures,
                   frames, frame_replies, running, peer, secrets, worksheet, exporters,
                   pdf_replies>>

NextDecode == AnalyzeText \/ AnalyzeImage

SpecDecode == InitDecode /\ [][NextDecode]_vars

Decoded == pc \in {"analyze_text", "analyze_image"}


(***************************************************************************)
(* Properties of the decoder (SpecDecode).                                 *)
(***************************************************************************)
GarbageReply == ~reply_src.raised /\ ~reply_src.body.json
ObjectReply ==
    /\ ~reply_src.raised
    /\ reply_src.body.json
    /\ TypeOf(reply_src.body.tree) = "members"

\* bare, inside a json-annotated fence, or inside a generic fence
FencedOrBare ==
    <<reply_src.layout.open, reply_src.layout.close>>
        \in {<<<<>>, <<>>>>, <<FenceJson, Fence>>, <<Fence, Fence>>}

\* C1: a reply that is no JSON once the fences are stripped, the empty and the
\* blank reply included, makes analyze_text and analyze_image return (not raise)
\* a failure value: error kind JSON parse error, the parser's diagnostic as
\* details, at most 500 characters long, and as raw_response the first 500
\* characters of the offending text.
C1_DecodeFailureContained ==
    (Decoded /\ GarbageReply) =>
        /\ IsDict(ai_response)
        /\ DOMAIN ai_response.obj = {"error", "details", "raw_response"}
        /\ ai_response.obj.error = Str(JSON_PARSE_ERROR)
        /\ TypeOf(ai_response.obj.details) = "errstr"
        /\ ai_response.obj.details.errstr.msg # ""
        /\ ai_response.obj.details.errstr.pos \in 0..Len(ReplyText(reply_src))
        /\ ErrStrLen(ai_response.obj.details.errstr) <= 500
        /\ TypeOf(ai_response.obj.raw_response) = "text"
        /\ Len(ai_response.obj.raw_response.text) <= 500
        /\ ai_response.obj.raw_response.text
               = SubSeq(BodyText(reply_src.body), 1,
                        Min(500, Len(BodyText(reply_src.body))))

\* C1 witness: a fenced reply of more than 500 characters that is no JSON has
\* been decoded into a failure carrying exactly 500 of them.
C1_Witness ==
    /\ pc = "analyze_text"
    /\ GarbageReply
    /\ reply_src.layout.open = FenceJson
    /\ Len(BodyText(reply_src.body)) > 500
    /\ IsDict(ai_response)
    /\ "raw_response" \in DOMAIN ai_response.obj
    /\ Len(ai_response.obj.raw_response.text) = 500

\* C2: the text of a JSON object decodes to the mapping it denotes whether it
\* is bare, in a json-annotated fence or in a generic fence, whatever blanks
\* surround it, for both backends and for analyze_text and analyze_image alike;
\* so the three wrappings yield the identical mapping.
C2_FenceStrippingAgrees ==
    (Decoded /\ ObjectReply /\ FencedOrBare) =>
        ai_response = Denote(reply_src.body.tree)

\* C2 witness: the OpenAI backend's image reply, a non-empty object in a
\* json-annotated fence with blanks around it, decoded to its mapping.
C2_Witness ==
    /\ pc = "analyze_image"
    /\ model_type = "openai"
    /\ ObjectReply
    /\ reply_src.layout.open = FenceJson
    /\ reply_src.layout.close = Fence
    /\ reply_src.layout.lead # <<>>
    /\ reply_src.layout.mid # <<>>
    /\ reply_src.body.tree.members # <<>>
    /\ ai_response = Denote(reply_src.body.tree)

\* C10: whenever decoding reports no failure, the value returned is a mapping.
C10_SuccessIsMapping ==
    (Decoded /\ ~reply_src.raised) => IsDict(ai_response)


(***************************************************************************)
(* The result evaluator (modules/evaluator.py and get_risk_level of        *)
(* config/criteria.py), as app.py imports and calls it:                    *)
(* evaluate_result(ai_response).  A value that carries "error" is          *)
(* rejected; any other mapping is evaluated; a value that is no mapping    *)
(* has no members to read and the call raises.                             *)
(***************************************************************************)
Exception(name) == [exception |-> name]
IsException(v) == TypeOf(v) = "exception"

Get(d, k, default) == IF k \in DOMAIN d THEN d[k] ELSE default

\* a reading of points_deducted that charges a malformed value in full
PointsOf_MalformedAsMax(v) ==
    IF IsDict(v) /\ "points_deducted" \in DOMAIN v.obj
    THEN IF IsNum(v.obj.points_deducted)
         THEN Min(100, Max(0, v.obj.points_deducted.num))
         ELSE 100
    ELSE 0

\* the points one violation deducts: absent or non-numeric counts 0, a number
\* is kept within 0..100
PointsOf(v) ==
    IF IsDict(v) /\ "points_deducted" \in DOMAIN v.obj /\ IsNum(v.obj.points_deducted)
    THEN Min(100, Max(0, v.obj.points_deducted.num))
    ELSE 0

RECURSIVE SumPoints(_)
SumPoints(violations) ==
    IF violations = <<>> THEN 0
    ELSE PointsOf(Head(violations)) + SumPoints(Tail(violations))

\* a score without the floor
calculate_score_NoFloor(violations) == 100 - SumPoints(violations)

calculate_score(violations) == Max(0, 100 - SumPoints(violations))

\* a table whose lower bounds are exclusive
get_risk_level_Exclusive(score) ==
    IF score > 90 THEN "Compliant"
    ELSE IF score > 70 THEN "Low Risk"
    ELSE IF score > 40 THEN "Medium Risk"
    ELSE "High Risk"

\* the threshold table, read from the top
get_risk_level(score) ==
    IF score >= 90 THEN "Compliant"
    ELSE IF score >= 70 THEN "Low Risk"
    ELSE IF score >= 40 THEN "Medium Risk"
    ELSE "High Risk"

RiskInfo(tier) ==
    Obj([color |-> Str(CASE tier = "Compliant" -> "green"
                         [] tier = "Low Risk" -> "yellow"
                         [] tier = "Medium Risk" -> "orange"
                         [] OTHER -> "red"),
         description |-> Str(tier)])

\* the "violations" entry as a sequence; a missing entry is the empty sequence
ViolationsOf(m) ==
    IF "violations" \in DOMAIN m /\ IsArr(m.violations) THEN m.violations.arr ELSE <<>>

\* the result of a value that carries "error": the error and its details only
Rejected(m) ==
    Obj([success |-> Bool(FALSE),
         error |-> m.error,
         details |-> Get(m, "details", Str(""))])

\* an evaluator that always recomputes score and tier
Evaluated_Recomputed(m, violations) ==
    LET score == Num(calculate_score(violations))
        tier == get_risk_level(score.num)
    IN  Obj([success |-> Bool(TRUE),
             overall_risk |-> Str(tier),
             score |-> score,
             violations |-> Arr(violations),
             recommendations |-> Get(m, "recommendations", Arr(<<>>)),
             summary |-> Get(m, "summary", Str("")),
             risk_info |-> RiskInfo(tier)])

\* an evaluator that classifies the deductions and not the score it reports
Evaluated_TierOfDeductions(m, violations) ==
    LET score == Get(m, "score", Num(calculate_score(violations)))
        tier == get_risk_level(calculate_score(violations))
    IN  Obj([success |-> Bool(TRUE),
             overall_risk |-> Get(m, "overall_risk", Str(tier)),
             score |-> score,
             violations |-> Arr(violations),
             recommendations |-> Get(m, "recommendations", Arr(<<>>)),
             summary |-> Get(m, "summary", Str("")),
             risk_info |-> RiskInfo(tier)])

\* the assembled result of a mapping that carries no error: score and tier
\* are the mapping's own when it supplies them
Evaluated(m, violations) ==
    LET score == Get(m, "score", Num(calculate_score(violations)))
        tier == IF IsNum(score) THEN get_risk_level(score.num) ELSE "High Risk"
    IN  Obj([success |-> Bool(TRUE),
             overall_risk |-> Get(m, "overall_risk", Str(tier)),
             score |-> score,
             violations |-> Arr(violations),
             recommendations |-> Get(m, "recommendations", Arr(<<>>)),
             summary |-> Get(m, "summary", Str("")),
             risk_info |-> RiskInfo(tier)])

RECURSIVE Dedup(_)
Dedup(vs) ==
    IF vs = <<>> THEN <<>>
    ELSE LET front == Dedup(SubSeq(vs, 1, Len(vs) - 1)) IN
         IF \E i \in 1..Len(front) : front[i] = vs[Len(vs)]
         THEN front ELSE Append(front, vs[Len(vs)])

\* an evaluator that drops repeated violations
evaluate_result_Dedup(r) ==
    IF ~IsDict(r) THEN Exception("AttributeError")
    ELSE IF "error" \in DOMAIN r.obj THEN Rejected(r.obj)
    ELSE Evaluated(r.obj, Dedup(ViolationsOf(r.obj)))

evaluate_result(r) ==
    IF ~IsDict(r) THEN Exception("AttributeError")
    ELSE IF "error" \in DOMAIN r.obj THEN Rejected(r.obj)
    ELSE Evaluated(r.obj, ViolationsOf(r.obj))


(***************************************************************************)
(* SpecEval: the evaluator alone.  The initial state holds a decoded value *)
(* and one step applies evaluate_result to it.                             *)
(***************************************************************************)
MaxEvalViolations == 5

EvalPointsChoices == {<<>>, <<Num(30)>>, <<SStr(S_abc)>>, <<None>>}

RECURSIVE SEvalViolationLists(_)
SEvalViolationLists(n) ==
    IF n = 0 THEN {<<>>}
    ELSE LET shorter == SEvalViolationLists(n - 1) IN
         shorter \cup {Append(l, SViolation(p)) :
                           l \in {x \in shorter : Len(x) = n - 1},
                           p \in EvalPointsChoices}

\* decoded rubric replies, replies with every explicit score of 0..100, the two
\* failure values of the decoder, and decoded values that are no mapping
EvalInputs ==
    {Denote(RubricObject(vs, sc, rk)) :
        vs \in {<<>>} \cup {<<l>> : l \in SEvalViolationLists(MaxEvalViolations)},
        sc \in ScoreChoices, rk \in RiskChoices}
    \cup {Denote(RubricObject(<<<<SViolation(<<Num(30)>>)>>>>, <<Num(n)>>, <<>>)) :
            n \in 0..100}
    \cup {DecodeFailure(JSONDecodeError("Expecting value", <<"x">>, 0), <<"x">>),
          CallFailure("Connection error.")}
    \cup {Denote(tr) : tr \in SNonObjects}

InitEval ==
    /\ eval_input \in EvalInputs
    /\ result = Unset
    /\ pc = "call"
    /\ model_type = "claude"
    /\ reply_src = Unset
    /\ response = Unset
    /\ ai_response = eval_input
    /\ SessionIdle

Evaluate ==
    /\ pc = "call"
    /\ result' = evaluate_result(eval_input)
    /\ pc' = "evaluate_result"
    /\ UNCHANGED <<model_type, response, reply_src, ai_response, eval_input,
                   current_result, diagnosis_history, show_examples,
                   show_history, clock, last, tmp_files, captures,
                   frames, frame_replies, running, peer, secrets, worksheet, exporters,
                   pdf_replies>>

NextEval == Evaluate

SpecEval == InitEval /\ [][NextEval]_vars

\* evaluate_result has run on a mapping that carries no error
EvaluatedMapping ==
    /\ pc = "evaluate_result"
    /\ IsDict(eval_input)
    /\ "error" \notin DOMAIN eval_input.obj

InputViolations == ViolationsOf(eval_input.obj)

HasNumericPoints(v) ==
    "points_deducted" \in DOMAIN v.obj /\ IsNum(v.obj.points_deducted)

\* the sum of the numeric points_deducted of the first n violations of vs
RECURSIVE NumericPointsSum(_, _)
NumericPointsSum(vs, n) ==
    IF n = 0 THEN 0
    ELSE NumericPointsSum(vs, n - 1)
         + (IF HasNumericPoints(vs[n]) THEN vs[n].obj.points_deducted.num ELSE 0)

\* C3: when the decoded mapping supplies no score, the result's score is
\* max(0, 100 - the sum of points_deducted over all violations), and it is never
\* negative.
C3_ScoreFloor ==
    (EvaluatedMapping /\ "score" \notin DOMAIN eval_input.obj) =>
        /\ IsDict(result)
        /\ result.obj.score
               = Num(Max(0, 100 - NumericPointsSum(InputViolations,
                                                   Len(InputViolations))))
        /\ result.obj.score.num >= 0

\* C3 witness: five violations of 30 points have been evaluated to score 0.
C3_Witness ==
    /\ EvaluatedMapping
    /\ "score" \notin DOMAIN eval_input.obj
    /\ Len(InputViolations) = 5
    /\ \A i \in 1..5 : HasNumericPoints(InputViolations[i])
                        /\ InputViolations[i].obj.points_deducted.num = 30
    /\ result.obj.score = Num(0)

\* C4: an explicit score of the decoded mapping is the result's score even
\* where 100 minus the deductions differs, and an explicit overall_risk is the
\* result's tier whatever tier the threshold table gives that score.
C4_TrustExplicit ==
    EvaluatedMapping =>
        /\ "score" \in DOMAIN eval_input.obj
               => result.obj.score = eval_input.obj.score
        /\ "overall_risk" \in DOMAIN eval_input.obj
               => result.obj.overall_risk = eval_input.obj.overall_risk

\* C4 witness: a mapping with score 95, tier High Risk and a violation of 30
\* points (100 - 30 = 70, tier Low Risk) has been evaluated to 95 and High Risk.
C4_Witness ==
    /\ EvaluatedMapping
    /\ "score" \in DOMAIN eval_input.obj
    /\ eval_input.obj.score = Num(95)
    /\ "overall_risk" \in DOMAIN eval_input.obj
    /\ eval_input.obj.overall_risk = Str("High Risk")
    /\ NumericPointsSum(InputViolations, Len(InputViolations)) = 30
    /\ result.obj.score = Num(95)
    /\ result.obj.overall_risk = Str("High Risk")

\* C5: every integer score of 0..100 gets exactly one tier: Compliant from 90,
\* Low Risk from 70 to 89, Medium Risk from 40 to 69, High Risk below 40.
C5_Thresholds ==
    (/\ EvaluatedMapping
     /\ "overall_risk" \notin DOMAIN eval_input.obj
     /\ IsNum(result.obj.score)
     /\ result.obj.score.num \in 0..100) =>
        LET sc == result.obj.score.num
            tier == result.obj.overall_risk
        IN  /\ (sc \in 90..100) <=> (tier = Str("Compliant"))
            /\ (sc \in 70..89) <=> (tier = Str("Low Risk"))
            /\ (sc \in 40..69) <=> (tier = Str("Medium Risk"))
            /\ (sc \in 0..39) <=> (tier = Str("High Risk"))

\* C5 witness: score 89, one below the Compliant boundary, classified Low Risk.
C5_Witness ==
    /\ EvaluatedMapping
    /\ "overall_risk" \notin DOMAIN eval_input.obj
    /\ result.obj.score = Num(89)
    /\ result.obj.overall_risk = Str("Low Risk")

\* C6: the result's violation sequence is the decoded input's: same length,
\* same elements, same order.
C6_ViolationsPreserved ==
    EvaluatedMapping =>
        /\ IsArr(result.obj.violations)
        /\ Len(result.obj.violations.arr) = Len(InputViolations)
        /\ \A i \in 1..Len(InputViolations) :
               result.obj.violations.arr[i] = InputViolations[i]

\* C6 witness: a list that holds the same violation twice and a different one
\* after it has been carried into the result.
C6_Witness ==
    /\ EvaluatedMapping
    /\ Len(InputViolations) = 3
    /\ InputViolations[1] = InputViolations[2]
    /\ InputViolations[3] # InputViolations[1]
    /\ result.obj.violations = Arr(InputViolations)

\* C7: a violation whose points_deducted is missing or not a number adds 0 to
\* the subtraction, and the evaluation of such a reply succeeds.
C7_MalformedPointsCountZero ==
    (/\ EvaluatedMapping
     /\ "score" \notin DOMAIN eval_input.obj
     /\ \E i \in 1..Len(InputViolations) : ~HasNumericPoints(InputViolations[i])) =>
        /\ IsDict(result)
        /\ result.obj.success = Bool(TRUE)
        /\ LET numeric == SelectSeq(InputViolations, HasNumericPoints) IN
           result.obj.score
               = Num(Max(0, 100 - NumericPointsSum(numeric, Len(numeric))))

\* C7 witness: violations with points "abc", none and 30 evaluated to 70.
C7_Witness ==
    /\ EvaluatedMapping
    /\ "score" \notin DOMAIN eval_input.obj
    /\ Len(InputViolations) = 3
    /\ "points_deducted" \in DOMAIN InputViolations[1].obj
    /\ IsStr(InputViolations[1].obj.points_deducted)
    /\ "points_deducted" \notin DOMAIN InputViolations[2].obj
    /\ HasNumericPoints(InputViolations[3])
    /\ result.obj.success = Bool(TRUE)
    /\ result.obj.score = Num(70)

\* the tier of the threshold table, by its four ranges
TableTier(score) ==
    CASE score \in 90..100 -> "Compliant"
      [] score \in 70..89 -> "Low Risk"
      [] score \in 40..69 -> "Medium Risk"
      [] score \in 0..39 -> "High Risk"

ScoredResult ==
    /\ EvaluatedMapping
    /\ IsNum(result.obj.score)
    /\ result.obj.score.num \in 0..100

\* C27 as the spec states it: in every Evaluated result overall_risk is the
\* tier the threshold table assigns to the result's score, whatever the
\* decoded mapping supplied
C27_TierIsTableTier ==
    ScoredResult => result.obj.overall_risk = Str(TableTier(result.obj.score.num))

\* C27, amended: overall_risk is the table's tier of the result's score, be
\* the score computed or explicit, when the decoded mapping supplies no
\* overall_risk; an explicit overall_risk is the result's as given
C27_TierOfScoreUnlessExplicit ==
    ScoredResult =>
        IF "overall_risk" \in DOMAIN eval_input.obj
        THEN result.obj.overall_risk = eval_input.obj.overall_risk
        ELSE result.obj.overall_risk = Str(TableTier(result.obj.score.num))

\* C27 witness: an explicit score of 50 without a tier, beside a violation of
\* 30 points, is classified Medium Risk, the tier of 50 and not that of 70
C27_Witness ==
    /\ ScoredResult
    /\ "overall_risk" \notin DOMAIN eval_input.obj
    /\ "score" \in DOMAIN eval_input.obj
    /\ eval_input.obj.score = Num(50)
    /\ NumericPointsSum(InputViolations, Len(InputViolations)) = 30
    /\ result.obj.overall_risk = Str("Medium Risk")


(***************************************************************************)
(* The adapters under src/: analyze_pdf_content and analyze_video_content. *)
(* Each takes the values its AIHandler calls returned, in call order.      *)
(***************************************************************************)
\* Python's  key in v : a key test on a dict, a membership test on a list, and
\* a TypeError on a number, a bool or None
ContainsKey(v, k) ==
    IF IsDict(v) THEN k \in DOMAIN v.obj
    ELSE IF IsArr(v) THEN \E i \in 1..Len(v.arr) : v.arr[i] = Str(k)
    ELSE FALSE

\* pdf_analyzer.py 121-138: text_result is the value of the analyze_text call,
\* image_results the values of the analyze_image calls made (none without a
\* page image); the merge needs "violations" on both sides and lists to extend
analyze_pdf_content(text_result, image_results) ==
    IF /\ image_results # <<>>
       /\ IsDict(image_results[1]) /\ IsDict(text_result)
       /\ ContainsKey(image_results[1], "violations")
       /\ ContainsKey(text_result, "violations")
       /\ IsArr(text_result.obj.violations)
       /\ IsArr(image_results[1].obj.violations)
    THEN Obj(SetKey(text_result.obj, "violations",
                    Arr(text_result.obj.violations.arr
                        \o image_results[1].obj.violations.arr)))
    ELSE text_result

\* an adapter that analyses every extracted frame
representative_indices_EveryFrame(n) == [i \in 1..n |-> i - 1]

\* video_analyzer.py 178: the indices of the first, the middle and the last frame
representative_indices(n) == <<0, n \div 2, n - 1>>

\* video_analyzer.py 181-182: the indices a frame is analysed for, in order
FrameCallIndices(n) ==
    SelectSeq(representative_indices(n), LAMBDA idx : idx < n)

\* video_analyzer.py 183: the timestamp of frame idx at one frame per second
FrameTimestamp(idx) == idx

\* video_analyzer.py 199-204: the frame results that got their timestamp; a
\* result that is no dict raises at the item assignment and is skipped
RECURSIVE frame_analyses(_, _, _)
frame_analyses(n, frame_results, k) ==
    IF k = 0 THEN <<>>
    ELSE LET r == frame_results[k]
             ts == FrameTimestamp(FrameCallIndices(n)[k])
         IN  frame_analyses(n, frame_results, k - 1)
             \o (IF IsDict(r) THEN <<Obj(SetKey(r.obj, "timestamp", Num(ts)))>>
                 ELSE <<>>)

\* a loop that passes over a violation it has seen in the frame
IterItems_Dedup(v) == IF IsArr(v) THEN Dedup(v.arr) ELSE <<>>

\* video_analyzer.py 212: what  for v in analysis["violations"]  iterates over;
\* an empty string or dict iterates over nothing
IterItems(v) == IF IsArr(v) THEN v.arr ELSE <<>>

\* video_analyzer.py 212-213: the loop raises TypeError on a value that cannot
\* be iterated and on an item that takes no item assignment
MergeRaises(a) ==
    /\ "violations" \in DOMAIN a
    /\ \/ ~IsArr(a.violations) /\ a.violations \notin {Str(""), Obj(EmptyDict)}
       \/ IsArr(a.violations)
          /\ \E i \in 1..Len(a.violations.arr) : ~IsDict(a.violations.arr[i])

\* video_analyzer.py 210-214: every violation tagged with its frame's timestamp
RECURSIVE all_violations(_)
all_violations(analyses) ==
    IF analyses = <<>> THEN <<>>
    ELSE LET a == Head(analyses).obj
             vs == IF "violations" \in DOMAIN a THEN IterItems(a.violations)
                   ELSE <<>>
         IN  [i \in 1..Len(vs) |-> Obj(SetKey(vs[i].obj, "timestamp", a.timestamp))]
             \o all_violations(Tail(analyses))

\* video_analyzer.py 215-216 (the replies modelled carry lists here)
RECURSIVE all_recommendations(_)
all_recommendations(analyses) ==
    IF analyses = <<>> THEN <<>>
    ELSE LET a == Head(analyses).obj IN
         (IF "recommendations" \in DOMAIN a
          THEN IterItems(a.recommendations) ELSE <<>>)
         \o all_recommendations(Tail(analyses))

FRAME_EXTRACTION_FAILED == "frame extraction failed"   \* the literal of video_analyzer.py:173

\* video_analyzer.py 169-229: n frames were extracted; frame_results are the
\* values of the analyze_image calls on the representative frames
analyze_video_content(n, frame_results) ==
    IF n = 0
    THEN Obj([error |-> Str(FRAME_EXTRACTION_FAILED),
              details |-> Str("no frame could be extracted from the video")])
    ELSE LET analyses == frame_analyses(n, frame_results, Len(frame_results))
             violations == all_violations(analyses)
         IN  IF \E k \in 1..Len(analyses) : MergeRaises(analyses[k].obj)
             THEN Exception("TypeError")
             ELSE
             Obj([overall_risk |-> Str("Medium Risk"),
                  score |-> Num(50),
                  violations |-> Arr(violations),
                  recommendations |-> Arr(all_recommendations(analyses)),
                  summary |-> [fmt |-> [frames |-> n, problems |-> Len(violations)]],
                  frame_count |-> Num(n),
                  analyzed_frames |-> Num(Len(analyses))])


(***************************************************************************)
(* The renderers: SheetsExporter.export_results, generate_pdf_report and   *)
(* generate_word_report.  A renderer is modelled by what it reads from the *)
(* result and what it makes of it (the time of the rendering and the       *)
(* layout aside); it yields its output, or the exception that ended it,    *)
(* together with the result as it leaves it.                               *)
(***************************************************************************)
MaxRenderViolations == 6
SheetViolations == 5         \* sheets_exporter.py:100
SheetRecommendations == 3    \* sheets_exporter.py:117
CellLen == 500               \* sheets_exporter.py:71, 79; word_reporter.py:43
ExpressionLen == 150         \* pdf_reporter.py:230, 235
ExplanationLen == 200        \* pdf_reporter.py:240

UNKNOWN == Str("unknown")

\* v[:n] of a string; a string literal of the model is shorter than any cut
Cut(v, n) == IF "text" \in DOMAIN v THEN Text(SliceTo(v.text, n)) ELSE v

Rendered(output, results) == [output |-> output, results |-> results]

\* item.get(...) raises AttributeError on an item that is no mapping
AllDicts(items) == \A i \in 1..Len(items) : IsDict(items[i])

\* sheets_exporter.py 94-109
format_violations(violations) ==
    LET shown == SliceTo(violations, SheetViolations) IN
    IF violations = <<>> THEN [cell |-> "none"]
    ELSE IF ~AllDicts(shown) THEN Exception("AttributeError")
    ELSE [cell |-> [i \in 1..Len(shown) |->
                      [category |-> Get(shown[i].obj, "category", Str("")),
                       category_name |-> Get(shown[i].obj, "category_name", Str("")),
                       description |-> Get(shown[i].obj, "description", Str("")),
                       points_deducted |-> Get(shown[i].obj, "points_deducted", Num(0))]],
          more |-> Max(Len(violations) - SheetViolations, 0)]

\* sheets_exporter.py 111-127
format_recommendations(recommendations) ==
    LET shown == SliceTo(recommendations, SheetRecommendations) IN
    IF recommendations = <<>> THEN [cell |-> "none"]
    ELSE IF ~AllDicts(shown) THEN Exception("AttributeError")
    ELSE [cell |-> [i \in 1..Len(shown) |->
                      [issue |-> Get(shown[i].obj, "issue", Str("")),
                       current_expression |->
                           Get(shown[i].obj, "current_expression", Str("")),
                       recommended_expression |->
                           Get(shown[i].obj, "recommended_expression", Str(""))]],
          more |-> Max(Len(recommendations) - SheetRecommendations, 0)]

\* sheets_exporter.py 67-79: the row, in the order its cells are computed
SheetRow(r) ==
    LET violations == format_violations(Get(r, "violations", Arr(<<>>)).arr)
        recommendations ==
            format_recommendations(Get(r, "recommendations", Arr(<<>>)).arr)
    IN  IF IsException(violations) THEN violations
        ELSE IF IsException(recommendations) THEN recommendations
        ELSE [row |-> [content_type |-> Get(r, "content_type", UNKNOWN),
                       content_sample |->
                           Cut(Get(r, "content_sample", Text(<<>>)), CellLen),
                       directives |-> Get(r, "directives", UNKNOWN),
                       version |-> Get(r, "version", UNKNOWN),
                       overall_risk |-> Get(r, "overall_risk", UNKNOWN),
                       score |-> Get(r, "score", Num(0)),
                       violation_count |-> Len(Get(r, "violations", Arr(<<>>)).arr),
                       violations |-> violations,
                       recommendations |-> recommendations,
                       summary |-> Cut(Get(r, "summary", Str("")), CellLen)]]

\* an exporter that drops from the result the violations it does not show
export_results_TrimInPlace(results, service_raises) ==
    Rendered(IF service_raises THEN Exception("APIError") ELSE SheetRow(results.obj),
             IF service_raises \/ "violations" \notin DOMAIN results.obj
             THEN results
             ELSE Obj([results.obj EXCEPT
                         !.violations = Arr(SliceTo(@.arr, SheetViolations))]))

\* sheets_exporter.py 27-92: the sheet is opened, the row computed and
\* appended; every exception is printed and raised again
export_results(results, service_raises) ==
    Rendered(IF service_raises THEN Exception("APIError") ELSE SheetRow(results.obj),
             results)

\* pdf_reporter.py 175-210, word_reporter.py 94-122
ViolationSection(violations) ==
    IF violations = <<>> THEN [paragraph |-> "no problem found"]
    ELSE IF ~AllDicts(violations) THEN Exception("AttributeError")
    ELSE [tables |-> [i \in 1..Len(violations) |->
                        [category_name |->
                             Get(violations[i].obj, "category_name", Str("unknown item")),
                         category |-> Get(violations[i].obj, "category", Str("")),
                         risk_level |-> Get(violations[i].obj, "risk_level", Str("Unknown")),
                         points_deducted |->
                             Get(violations[i].obj, "points_deducted", Num(0)),
                         description |-> Get(violations[i].obj, "description", Str("")),
                         evidence |-> Get(violations[i].obj, "evidence", Str(""))]]]

\* pdf_reporter.py 217-245, word_reporter.py 128-156; the PDF report cuts the
\* expressions and the explanation, the Word report (no length: <<>>) does not
RecommendationSection(recommendations, expression_len, explanation_len) ==
    LET Fit(v, n) == IF n = <<>> THEN v ELSE Cut(v, n[1]) IN
    IF recommendations = <<>> THEN [paragraph |-> "nothing to correct"]
    ELSE IF ~AllDicts(recommendations) THEN Exception("AttributeError")
    ELSE [paragraphs |-> [i \in 1..Len(recommendations) |->
            [issue |-> Get(recommendations[i].obj, "issue", Str("issue")),
             current_expression |->
                 Fit(Get(recommendations[i].obj, "current_expression", Str("")),
                     expression_len),
             recommended_expression |->
                 Fit(Get(recommendations[i].obj, "recommended_expression", Str("")),
                     expression_len),
             explanation |->
                 Fit(Get(recommendations[i].obj, "explanation", Str("")),
                     explanation_len)]]]

\* the pages both reports have: title page, summary table, violations,
\* recommendations
Report(r, content_sample, recommendations) ==
    LET violations == ViolationSection(Get(r, "violations", Arr(<<>>)).arr)
    IN  IF IsException(violations) THEN violations
        ELSE IF IsException(recommendations) THEN recommendations
        ELSE [document |->
                [content_type |-> Get(r, "content_type", UNKNOWN),
                 content_sample |-> content_sample,
                 overall_risk |-> Get(r, "overall_risk", UNKNOWN),
                 score |-> Get(r, "score", Num(0)),
                 directives |-> Get(r, "directives", UNKNOWN),
                 version |-> Get(r, "version", UNKNOWN),
                 violation_count |-> Len(Get(r, "violations", Arr(<<>>)).arr),
                 description |->
                     Get(Get(r, "risk_info", Obj(EmptyDict)).obj, "description", Str("")),
                 summary |-> Get(r, "summary", Str("")),
                 violations |-> violations,
                 recommendations |-> recommendations]]

\* pdf_reporter.py 16-254: the sample is printed whole
generate_pdf_report(results, build_raises) ==
    LET r == results.obj
        document ==
            Report(r, Get(r, "content_sample", Text(<<>>)),
                   RecommendationSection(Get(r, "recommendations", Arr(<<>>)).arr,
                                         <<ExpressionLen>>, <<ExplanationLen>>))
    IN  Rendered(IF ~IsException(document) /\ build_raises
                 THEN Exception("LayoutError") ELSE document,
                 results)

\* word_reporter.py 13-163: the sample is cut to 500 characters
generate_word_report(results, save_raises) ==
    LET r == results.obj
        document ==
            Report(r, Cut(Get(r, "content_sample", Text(<<>>)), CellLen),
                   RecommendationSection(Get(r, "recommendations", Arr(<<>>)).arr,
                                         <<>>, <<>>))
    IN  Rendered(IF ~IsException(document) /\ save_raises
                 THEN Exception("IOError") ELSE document,
                 results)

(***************************************************************************)
(* Spec: one browser session of app.py.  The tabs of the five analyses are *)
(* on screen when neither the examples, nor the history, nor a result is   *)
(* shown; every handler runs from its button to its return or rerun.       *)
(***************************************************************************)
MinTextLen == 10      \* app.py:315
MinMemoLen == 5       \* app.py:403, 488, 579
SampleLen == 200      \* app.py:330
LongTextLen == 201
MaxAnalyses == 2
MaxFrames == 2

Chars(n) == [i \in 1..n |-> "e"]

ApiKeys == {"", "sk-key"}
TextInputs == {<<>>, Chars(MinTextLen - 1), Chars(MinTextLen), Chars(LongTextLen)}
\* memos of four and of five characters between blanks
MemoInputs == {<<>>, <<" ", "a", "c", "m", "e", " ">>,
               <<" ", "a", "c", "m", "e", "s", " ">>}
\* a URL of another scheme, and one longer than the sample of a text
UrlInputs == {<<"f", "t", "p", ":", "/", "/", "x">>,
              <<"h", "t", "t", "p", "s", ":", "/", "/">> \o Chars(SampleLen)}
FileName == <<"f">>
PdfImageCounts == {0, 1}
FrameCounts == 0..MaxFrames

\* the sidebar's defaults (app.py:156, 169-175)
selected_version == Str("v1")
directive_label == Str("both directives")

PlainLayout ==
    [lead |-> <<>>, open |-> <<>>, mid |-> <<>>, pre |-> <<>>, close |-> <<>>,
     trail |-> <<>>]
FencedLayout ==
    [lead |-> <<>>, open |-> FenceJson, mid |-> <<"\n">>, pre |-> <<"\n">>,
     close |-> Fence, trail |-> <<>>]

ListReplySrc == Reply(PlainLayout, JsonBody(SArr(<<Num(1)>>), <<>>))
ViolationReplySrc ==
    Reply(FencedLayout,
          JsonBody(RubricObject(<<<<SViolation(<<Num(30)>>)>>>>, <<>>, <<>>), <<>>))
ScoredReplySrc ==
    Reply(PlainLayout,
          JsonBody(RubricObject(<<>>, <<Num(95)>>, <<SStr(S_HighRisk)>>), <<>>))

\* what the backend does with a call of the session: it raises, or replies
\* with a list, with a fenced rubric object that has a violation, or with a
\* bare object that has score and tier and no violations
SessionSources == {ClientError, ListReplySrc, ViolationReplySrc, ScoredReplySrc}
PdfImageSources == {ClientError, ViolationReplySrc}
FrameSources ==
    {<<ViolationReplySrc, ViolationReplySrc, ViolationReplySrc>>,
     <<ClientError, ViolationReplySrc, ListReplySrc>>}

\* what ai_handler.analyze_text / analyze_image return in the session, for
\* each backend and each answer of its client
TextCalls ==
    [mt \in ModelTypes, src \in SessionSources |-> analyze_text(mt, Envelope(mt, src))]
ImageCalls ==
    [mt \in ModelTypes, src \in SessionSources |-> analyze_image(mt, Envelope(mt, src))]

TextCall(mt, src) == TextCalls[mt, src]
ImageCall(mt, src) == ImageCalls[mt, src]

\* text_analyzer, image_analyzer and web_analyzer build the prompt and return
\* what the one AIHandler call returns
analyze_text_content(call_result) == call_result
analyze_image_content(call_result) == call_result
analyze_web_content(call_result) == call_result

AnalysisOps ==
    {"handle_text_analysis", "handle_image_analysis", "handle_pdf_analysis",
     "handle_video_analysis", "handle_web_analysis"}

\* what the user had entered when the button was pressed
Entered(api_key, input) == [api_key |-> api_key, input |-> input]

\* what the run of a handler did: how it ended, the client calls it made, and
\* what it was given
Observation(op, outcome, srcs, entered) ==
    [op |-> op, outcome |-> outcome,
     calls |-> [i \in 1..Len(srcs) |-> IF srcs[i].raised THEN "raised" ELSE "replied"],
     entered |-> entered,
     saved |-> FALSE]

\* app.py 223-245: the tabs are rendered last
TabsVisible == ~show_examples /\ ~show_history /\ current_result = None

\* no AIHandler exists outside the try block of a handler
NoHandler == "none"

\* app.py 311-317: st.error and return before anything is called
Refuse(op, outcome, entered) ==
    /\ last' = Observation(op, outcome, <<>>, entered)
    /\ model_type' = NoHandler
    /\ ai_response' = Unset
    /\ eval_input' = Unset
    /\ result' = Unset
    /\ UNCHANGED <<current_result, diagnosis_history, clock, worksheet>>

\* a handler that cuts every sample to the length of a text's
WithMetadata_TruncateAll(res, ctype, sample) ==
    Obj([k \in DOMAIN res.obj
              \cup {"content_type", "version", "directives", "content_sample"} |->
            CASE k = "content_type" -> Str(ctype)
              [] k = "version" -> selected_version
              [] k = "directives" -> directive_label
              [] k = "content_sample" -> Text(SliceTo(sample, SampleLen))
              [] OTHER -> res.obj[k]])

\* a handler that writes the sample over the evaluator's summary
WithMetadata_SampleAsSummary(res, ctype, sample) ==
    Obj([k \in DOMAIN res.obj
              \cup {"content_type", "version", "directives", "summary"} |->
            CASE k = "content_type" -> Str(ctype)
              [] k = "version" -> selected_version
              [] k = "directives" -> directive_label
              [] k = "summary" -> Text(sample)
              [] OTHER -> res.obj[k]])

\* app.py 327-330: the metadata written into the result
WithMetadata(res, ctype, sample) ==
    Obj([k \in DOMAIN res.obj
              \cup {"content_type", "version", "directives", "content_sample"} |->
            CASE k = "content_type" -> Str(ctype)
              [] k = "version" -> selected_version
              [] k = "directives" -> directive_label
              [] k = "content_sample" -> Text(sample)
              [] OTHER -> res.obj[k]])

\* a handler that shows its result and leaves the history as it was
StoreResult_CurrentOnly(r, ctype) ==
    /\ current_result' = r
    /\ UNCHANGED diagnosis_history
    /\ clock' = clock + 1

\* a handler that puts its entry in front of the history
StoreResult_Prepend(r, ctype) ==
    /\ current_result' = r
    /\ diagnosis_history' =
           <<[timestamp |-> clock + 1, type |-> ctype, result |-> r]>>
           \o diagnosis_history
    /\ clock' = clock + 1

\* a handler that appends its result twice
StoreResult_AppendTwice(r, ctype) ==
    /\ current_result' = r
    /\ diagnosis_history' =
           diagnosis_history
           \o <<[timestamp |-> clock + 1, type |-> ctype, result |-> r],
                [timestamp |-> clock + 1, type |-> ctype, result |-> r]>>
    /\ clock' = clock + 1

\* app.py 332-337: the result becomes the current one and the history grows
\* by its entry, stamped with the time of the append
StoreResult(r, ctype) ==
    /\ current_result' = r
    /\ diagnosis_history' =
           Append(diagnosis_history,
                  [timestamp |-> clock + 1, type |-> ctype, result |-> r])
    /\ clock' = clock + 1

\* sheets_exporter.py 59-64: the header row of a new worksheet
Headers == [headers |-> TRUE]

\* the calls of the sheet service in export_results and in the constructor of
\* SheetsExporter, each of which can raise; "none": no call raises
ExportFaults == {"none", "authorize", "open_by_key", "worksheet", "add_worksheet",
                 "append_headers", "append_row"}

Exported(value, sheet, results) == [value |-> value, sheet |-> sheet, results |-> results]

\* sheets_exporter.py 40-92 seen from the worksheet: sheet is the worksheet
\* before the call, fault the call that raises
export_results_on(sheet, results, fault) ==
    LET rendered == export_results(results, fault = "append_row")
        base == IF sheet.exists THEN sheet.rows ELSE <<Headers>>
    IN  IF fault \in {"open_by_key", "worksheet"}
        THEN Exported(Exception("APIError"), sheet, results)
        ELSE IF ~sheet.exists /\ fault = "add_worksheet"
        THEN Exported(Exception("APIError"), sheet, results)
        ELSE IF ~sheet.exists /\ fault = "append_headers"
        THEN Exported(Exception("APIError"), Worksheet(<<>>), results)
        ELSE IF IsException(rendered.output)
        THEN Exported(rendered.output, Worksheet(base), rendered.results)
        ELSE Exported(Bool(TRUE), Worksheet(Append(base, rendered.output)),
                      rendered.results)

\* app.py 29
Configured(config) == config.spreadsheet_id # "" /\ config.worksheet_name # ""

\* app.py 25-39: False unless export_results returned True
auto_save_to_sheet(r, config, sheet, fault) ==
    IF ~Configured(config) THEN Exported(Bool(FALSE), sheet, r)
    ELSE IF ~config.credentials \/ fault = "authorize"
    THEN Exported(Bool(FALSE), sheet, r)
    ELSE LET exported == export_results_on(sheet, r, fault) IN
         IF IsException(exported.value)
         THEN Exported(Bool(FALSE), exported.sheet, exported.results)
         ELSE exported

\* the faults that make a difference to a run under config
FaultsUnder(config) ==
    IF Configured(config) /\ config.credentials THEN ExportFaults ELSE {"none"}

\* app.py 321-347: the try block from the adapter's return on, for the
\* AIHandler of backend mt.  An exception of the adapter or of evaluate_result
\* ends in the handler's except clause; auto_save_to_sheet writes the stored
\* result to the sheet and its failure is passed over.
Complete(op, ctype, sample, mt, adapter_value, srcs, entered) ==
    LET evaluated == IF IsException(adapter_value) THEN Unset
                     ELSE evaluate_result(adapter_value)
    IN  /\ model_type' = mt
        /\ ai_response' = adapter_value
        /\ eval_input' = IF IsException(adapter_value) THEN Unset ELSE adapter_value
        /\ IF IsException(adapter_value) \/ IsException(evaluated)
           THEN /\ result' = evaluated
                /\ last' = Observation(op, "raised", srcs, entered)
                /\ UNCHANGED <<current_result, diagnosis_history, clock, worksheet>>
           ELSE \E stored \in {WithMetadata(evaluated, ctype, sample)},
                   fault \in FaultsUnder(secrets) :
                   \E saved \in {auto_save_to_sheet(stored, secrets, worksheet, fault)} :
                      /\ result' = stored
                      /\ StoreResult(saved.results, ctype)
                      /\ worksheet' = saved.sheet
                      /\ last' = [Observation(op, "result", srcs, entered)
                                    EXCEPT !.saved = saved.value.bool]

\* f"<kind>: {uploaded_file.name} | {memo}" (app.py:420, 508, 592)
MemoSample(kind, memo) == kind \o <<":", " ">> \o FileName \o <<" ", "|", " ">> \o memo

ValidTexts == {t \in TextInputs : Len(t) >= MinTextLen}
\* the memo measured as typed, blanks at its ends included
ValidMemos_Untrimmed == {m \in MemoInputs : Len(m) >= MinMemoLen}
ValidMemos == {m \in MemoInputs : Len(strip(m)) >= MinMemoLen}
ValidUrls ==
    {u \in UrlInputs : \/ startswith(u, <<"h", "t", "t", "p", ":", "/", "/">>)
                       \/ startswith(u, <<"h", "t", "t", "p", "s", ":", "/", "/">>)}

Views == <<show_examples, show_history>>
\* the session leaves alone what the other specifications observe
Fixed == <<response, reply_src, pc, tmp_files, captures, frames, frame_replies,
           running, peer, secrets, exporters, pdf_replies>>

\* app.py 278-347
handle_text_analysis ==
    /\ TabsVisible /\ clock < MaxAnalyses
    /\ \/ \E api_key \in ApiKeys, text_input \in TextInputs :
            /\ api_key = ""
            /\ Refuse("handle_text_analysis", "no_api_key", Entered(api_key, text_input))
       \/ \E api_key \in ApiKeys \ {""}, text_input \in TextInputs \ ValidTexts :
            Refuse("handle_text_analysis", "invalid_input", Entered(api_key, text_input))
       \/ \E api_key \in ApiKeys \ {""}, mt \in ModelTypes, src \in SessionSources :
            LET ai == analyze_text_content(TextCall(mt, src)) IN
            \E text_input \in ValidTexts :
                Complete("handle_text_analysis", "text",
                         SliceTo(text_input, SampleLen), mt, ai, <<src>>,
                         Entered(api_key, text_input))
    /\ UNCHANGED <<Views, Fixed>>

\* app.py 349-439
handle_image_analysis ==
    /\ TabsVisible /\ clock < MaxAnalyses
    /\ \/ \E api_key \in ApiKeys, image_memo \in MemoInputs :
            /\ api_key = ""
            /\ Refuse("handle_image_analysis", "no_api_key", Entered(api_key, image_memo))
       \/ \E api_key \in ApiKeys \ {""}, image_memo \in MemoInputs \ ValidMemos :
            Refuse("handle_image_analysis", "invalid_input", Entered(api_key, image_memo))
       \/ \E api_key \in ApiKeys \ {""}, mt \in ModelTypes, src \in SessionSources :
            LET ai == analyze_image_content(ImageCall(mt, src)) IN
            \E image_memo \in ValidMemos :
                Complete("handle_image_analysis", "image",
                         MemoSample(<<"i", "m", "a", "g", "e">>, image_memo),
                         mt, ai, <<src>>, Entered(api_key, image_memo))
    /\ UNCHANGED <<Views, Fixed>>

\* app.py 441-523 with pdf_analyzer.py 70-138: one analyze_text call, and one
\* analyze_image call when a page image was extracted
handle_pdf_analysis ==
    /\ TabsVisible /\ clock < MaxAnalyses
    /\ \/ \E api_key \in ApiKeys, pdf_memo \in MemoInputs :
            /\ api_key = ""
            /\ Refuse("handle_pdf_analysis", "no_api_key", Entered(api_key, pdf_memo))
       \/ \E api_key \in ApiKeys \ {""}, pdf_memo \in MemoInputs \ ValidMemos :
            Refuse("handle_pdf_analysis", "invalid_input", Entered(api_key, pdf_memo))
       \/ \E api_key \in ApiKeys \ {""}, mt \in ModelTypes, src \in SessionSources :
            LET text_result == TextCall(mt, src) IN
            \E images \in PdfImageCounts, isrc \in PdfImageSources,
               pdf_memo \in ValidMemos :
                /\ images = 0 => isrc = ClientError
                /\ Complete("handle_pdf_analysis", "PDF",
                            MemoSample(<<"P", "D", "F">>, pdf_memo), mt,
                            analyze_pdf_content(
                                text_result,
                                IF images > 0 THEN <<ImageCall(mt, isrc)>> ELSE <<>>),
                            IF images > 0 THEN <<src, isrc>> ELSE <<src>>,
                            Entered(api_key, pdf_memo))
    /\ UNCHANGED <<Views, Fixed>>

\* app.py 526-609 with video_analyzer.py 153-229: one analyze_image call for
\* each representative frame
handle_video_analysis ==
    /\ TabsVisible /\ clock < MaxAnalyses
    /\ \/ \E api_key \in ApiKeys, video_memo \in MemoInputs :
            /\ api_key = ""
            /\ Refuse("handle_video_analysis", "no_api_key", Entered(api_key, video_memo))
       \/ \E api_key \in ApiKeys \ {""}, video_memo \in MemoInputs \ ValidMemos :
            Refuse("handle_video_analysis", "invalid_input", Entered(api_key, video_memo))
       \/ \E api_key \in ApiKeys \ {""}, mt \in ModelTypes, fsrcs \in FrameSources :
            LET all_results == [k \in 1..Len(fsrcs) |-> ImageCall(mt, fsrcs[k])] IN
            \E n \in FrameCounts, video_memo \in ValidMemos :
                LET calls == IF n = 0 THEN 0 ELSE Len(FrameCallIndices(n))
                    srcs == SubSeq(fsrcs, 1, calls)
                    frame_results == SubSeq(all_results, 1, calls)
                IN  Complete("handle_video_analysis", "video",
                             MemoSample(<<"v", "i", "d", "e", "o">>, video_memo), mt,
                             analyze_video_content(n, frame_results), srcs,
                             Entered(api_key, video_memo))
    /\ UNCHANGED <<Views, Fixed>>

\* app.py 612-682: a URL of another scheme is refused where it is typed in
handle_web_analysis ==
    /\ TabsVisible /\ clock < MaxAnalyses
    /\ \/ \E api_key \in ApiKeys, url_input \in UrlInputs \ ValidUrls :
            Refuse("handle_web_analysis", "invalid_input", Entered(api_key, url_input))
       \/ \E api_key \in ApiKeys, url_input \in ValidUrls :
            /\ api_key = ""
            /\ Refuse("handle_web_analysis", "no_api_key", Entered(api_key, url_input))
       \/ \E api_key \in ApiKeys \ {""}, mt \in ModelTypes, src \in SessionSources :
            LET ai == analyze_web_content(TextCall(mt, src)) IN
            \E url_input \in ValidUrls :
                Complete("handle_web_analysis", "web", url_input, mt, ai, <<src>>,
                         Entered(api_key, url_input))
    /\ UNCHANGED <<Views, Fixed>>

\* sorted(..., key=lambda x: x['timestamp'], reverse=True): a new list, the
\* entries of equal timestamp in the order they had
RECURSIVE sorted_newest_first(_)
sorted_newest_first(history) ==
    IF history = <<>> THEN <<>>
    ELSE LET e == history[Len(history)]
             front == sorted_newest_first(SubSeq(history, 1, Len(history) - 1))
             keep == Cardinality({i \in 1..Len(front) :
                                     front[i].timestamp >= e.timestamp})
         IN  SubSeq(front, 1, keep) \o <<e>> \o SubSeq(front, keep + 1, Len(front))

\* app.py 811, 815, 835: h['result']['score'] and h['result']['overall_risk']
\* are read by index, and the scores are summed
StatisticsRaise(history) ==
    \E i \in 1..Len(history) :
        \/ "score" \notin DOMAIN history[i].result.obj
        \/ ~IsNum(history[i].result.obj.score)
        \/ "overall_risk" \notin DOMAIN history[i].result.obj

\* app.py 791-836: an empty history is reported and nothing is listed; else
\* the history is sorted, the statistics are computed over it, and the
\* entries are listed
show_diagnosis_history(history) ==
    IF history = <<>> THEN NoObservation
    ELSE IF StatisticsRaise(sorted_newest_first(history))
    THEN [op |-> "show_diagnosis_history", outcome |-> "raised", calls |-> <<>>,
          listing |-> <<>>]
    ELSE [op |-> "show_diagnosis_history", outcome |-> "listed", calls |-> <<>>,
          listing |-> sorted_newest_first(history)]

\* app.py 223-245: what the script renders below the sidebar
MainView(examples, history, stored) ==
    IF ~examples /\ history THEN show_diagnosis_history(stored) ELSE NoObservation

\* app.py 684-767: a result that is no success is shown as its error and
\* nothing else; a success is shown in full, with the notice that it was saved
\* when a spreadsheet and a worksheet name are configured, and the home button
display_result(r, config) ==
    IF Get(r.obj, "success", Bool(FALSE)) # Bool(TRUE)
    THEN [shown |-> "error", saved_notice |-> FALSE, home_button |-> FALSE]
    ELSE [shown |-> "result", saved_notice |-> Configured(config), home_button |-> TRUE]

\* app.py 223-245: the view the script renders, by the order of its tests
RenderedView(examples, history, current) ==
    IF examples THEN "examples"
    ELSE IF history THEN "history"
    ELSE IF current # None THEN "result"
    ELSE "tabs"

\* what a script run outside the handlers did: the button that started it,
\* the view it rendered and what the view showed
Seen(pressed, view, shown) ==
    [op |-> shown.op, pressed |-> pressed, view |-> view,
     outcome |-> IF shown = NoObservation THEN "rendered" ELSE shown.outcome,
     calls |-> <<>>,
     listing |-> IF shown = NoObservation THEN <<>> ELSE shown.listing]

\* a rerun of the script outside the handlers: their locals are gone, and the
\* view of the session state is rendered
Rerun(pressed, examples, history, current, stored) ==
    /\ model_type' = NoHandler
    /\ ai_response' = Unset
    /\ eval_input' = Unset
    /\ result' = Unset
    /\ last' = Seen(pressed, RenderedView(examples, history, current),
                    MainView(examples, history, stored))
    /\ UNCHANGED <<Fixed, clock, worksheet>>

\* a home button that leaves the history view open
HomeSidebar_KeepHistoryView ==
    /\ current_result' = None
    /\ show_examples' = FALSE
    /\ Rerun("home_sidebar", FALSE, show_history, None, diagnosis_history)
    /\ UNCHANGED <<diagnosis_history, show_history>>

\* app.py 78-84: the sidebar's home button
HomeSidebar ==
    /\ current_result' = None
    /\ show_examples' = FALSE
    /\ show_history' = FALSE
    /\ Rerun("home_sidebar", FALSE, FALSE, None, diagnosis_history)
    /\ UNCHANGED diagnosis_history

\* app.py 199-201
ShowExamples ==
    /\ ~show_examples
    /\ show_examples' = TRUE
    /\ Rerun("show_examples", TRUE, show_history, current_result, diagnosis_history)
    /\ UNCHANGED <<current_result, diagnosis_history, show_history>>

\* app.py 203-205
ShowHistory ==
    /\ ~show_history
    /\ show_history' = TRUE
    /\ Rerun("show_history", show_examples, TRUE, current_result, diagnosis_history)
    /\ UNCHANGED <<current_result, diagnosis_history, show_examples>>

\* app.py 213-216
ClearResult ==
    /\ current_result # None
    /\ current_result' = None
    /\ Rerun("clear_result", show_examples, show_history, None, diagnosis_history)
    /\ UNCHANGED <<diagnosis_history, Views>>

\* app.py 218-221
ClearHistory ==
    /\ diagnosis_history # <<>>
    /\ diagnosis_history' = <<>>
    /\ Rerun("clear_history", show_examples, show_history, current_result, <<>>)
    /\ UNCHANGED <<current_result, Views>>

\* app.py 224-228: the examples view and its home button
HomeFromExamples ==
    /\ show_examples
    /\ show_examples' = FALSE
    /\ Rerun("home_examples", FALSE, show_history, current_result, diagnosis_history)
    /\ UNCHANGED <<current_result, diagnosis_history, show_history>>

\* app.py 232-236: the history view and its home button, which is rendered
\* when show_diagnosis_history has returned
HomeFromHistory ==
    /\ ~show_examples /\ show_history
    /\ ~StatisticsRaise(diagnosis_history)
    /\ show_history' = FALSE
    /\ Rerun("home_history", show_examples, FALSE, current_result, diagnosis_history)
    /\ UNCHANGED <<current_result, diagnosis_history, show_examples>>

\* app.py 240-242 and 763-767: the result view; display_result returns before
\* its home button when the result is no success
HomeFromResult ==
    /\ ~show_examples /\ ~show_history /\ current_result # None
    /\ current_result.obj.success = Bool(TRUE)
    /\ current_result' = None
    /\ Rerun("home_result", show_examples, show_history, None, diagnosis_history)
    /\ UNCHANGED <<diagnosis_history, Views>>

Init ==
    /\ model_type = NoHandler
    /\ response = Unset
    /\ reply_src = Unset
    /\ pc = "session"
    /\ ai_response = Unset
    /\ eval_input = Unset
    /\ result = Unset
    /\ SessionIdle

Next ==
    \/ handle_pdf_analysis
    \/ handle_video_analysis
    \/ handle_text_analysis
    \/ handle_image_analysis
    \/ handle_web_analysis
    \/ HomeSidebar
    \/ ShowExamples
    \/ ShowHistory
    \/ ClearResult
    \/ ClearHistory
    \/ HomeFromExamples
    \/ HomeFromHistory
    \/ HomeFromResult

Spec == Init /\ [][Next]_vars


(***************************************************************************)
(* Claims on the session.                                                  *)
(***************************************************************************)
MetadataKeys == {"content_type", "version", "directives", "content_sample"}

\* the two terminal states of a result, the handler's metadata aside
IsEvaluated(r) ==
    /\ IsDict(r)
    /\ {"success", "overall_risk", "score", "violations", "recommendations",
        "summary"} \subseteq DOMAIN r.obj
    /\ "error" \notin DOMAIN r.obj
    /\ r.obj.success = Bool(TRUE)

IsRejected(r) ==
    /\ IsDict(r)
    /\ DOMAIN r.obj \ MetadataKeys = {"success", "error", "details"}
    /\ r.obj.success = Bool(FALSE)

AnalysisRan == last.op \in AnalysisOps

\* C8 as the spec states it: after every press of a start-analysis button
\* there is a result of the press, Evaluated or Rejected, on show and in the
\* history.
C8_EveryPressYieldsResult ==
    AnalysisRan =>
        /\ current_result # None
        /\ IsEvaluated(current_result) \/ IsRejected(current_result)
        /\ diagnosis_history # <<>>
        /\ diagnosis_history[Len(diagnosis_history)].result = current_result

C8_Step ==
    last'.op \in AnalysisOps =>
        IF eval_input' # Unset /\ IsDict(eval_input')
        THEN /\ Len(diagnosis_history') = Len(diagnosis_history) + 1
             /\ SubSeq(diagnosis_history', 1, Len(diagnosis_history)) = diagnosis_history
             /\ diagnosis_history'[Len(diagnosis_history')].result = current_result'
             /\ result' = current_result'
             /\ IsEvaluated(current_result') \/ IsRejected(current_result')
        ELSE /\ UNCHANGED <<current_result, diagnosis_history>>
             /\ ~IsDict(result')

\* C8, amended: a press of a start-analysis button produces at most one
\* result.  It produces exactly one, Evaluated or Rejected, shown and appended
\* to the history, when the press passes validation and evaluate_result is
\* reached with a mapping; a press that is refused (no API key, input too
\* short) or whose try block raises leaves result and history as they were.
C8_AtMostOneResult == [][C8_Step]_vars

\* the second analysis of a session ended with a Rejected result
C8_Witness ==
    /\ last.op = "handle_pdf_analysis"
    /\ last.outcome = "result"
    /\ Len(diagnosis_history) = 2
    /\ IsRejected(current_result)
    /\ IsEvaluated(diagnosis_history[1].result)

FirstCallRaised == AnalysisRan /\ last.calls # <<>> /\ last.calls[1] = "raised"

HistoryKept == diagnosis_history' = diagnosis_history
HistoryExtended ==
    /\ Len(diagnosis_history') = Len(diagnosis_history) + 1
    /\ SubSeq(diagnosis_history', 1, Len(diagnosis_history)) = diagnosis_history

\* C11 as the spec states it: every step leaves diagnosis_history as it is
\* or extends it by one entry at the end.
C11_AppendOnly == [][HistoryKept \/ HistoryExtended]_vars

\* C11, amended: every step leaves diagnosis_history as it is, extends it by
\* one entry at the end, or (the sidebar's clear-history button) empties it;
\* short of that button no entry is removed, replaced or reordered, and an
\* appended entry carries the result now on show.
C11_AppendOrClear ==
    [][\/ HistoryKept
       \/ /\ HistoryExtended
          /\ diagnosis_history'[Len(diagnosis_history')].result = current_result'
          /\ last'.op \in AnalysisOps
       \/ /\ diagnosis_history' = <<>>
          /\ last'.op \notin AnalysisOps
          /\ last'.pressed = "clear_history"
          /\ UNCHANGED current_result]_vars

\* the history was emptied after its first entry, has grown again by the next
\* analysis, and that result has been cleared from view
C11_Witness ==
    /\ Len(diagnosis_history) = 1
    /\ diagnosis_history[1].timestamp > 1
    /\ current_result = None


Refused == AnalysisRan /\ last.outcome \in {"no_api_key", "invalid_input"}
Validated == AnalysisRan /\ ~Refused

StoredResults ==
    {diagnosis_history[i].result : i \in 1..Len(diagnosis_history)}
    \cup (IF current_result = None THEN {} ELSE {current_result})

SampleOf(r) == r.obj.content_sample.text

\* C13 as the spec states it: the content_sample of every stored result is at
\* most 200 characters long.
C13_SampleBounded ==
    \A r \in StoredResults : Len(SampleOf(r)) <= SampleLen

MemoKinds ==
    [image |-> <<"i", "m", "a", "g", "e">>, PDF |-> <<"P", "D", "F">>,
     video |-> <<"v", "i", "d", "e", "o">>]

\* C13, amended: only the sample of a text is cut, to its first 200
\* characters; the sample of an image, a PDF or a video is the label, the
\* file name and the whole memo, and the sample of a web page is the whole
\* URL, whatever their length.  content_type, version and directives are the
\* handler's label and the sidebar's two selections, stored as they are.
C13_OnlyTextSampleCut ==
    \A r \in StoredResults :
        /\ r.obj.version = selected_version
        /\ r.obj.directives = directive_label
        /\ IsStr(r.obj.content_type)
        /\ r.obj.content_type = Str("text") =>
             \E t \in ValidTexts : SampleOf(r) = SubSeq(t, 1, Min(Len(t), SampleLen))
        /\ r.obj.content_type = Str("web") => SampleOf(r) \in ValidUrls
        /\ r.obj.content_type.str \in DOMAIN MemoKinds =>
             \E memo \in ValidMemos :
                SampleOf(r) = MemoKinds[r.obj.content_type.str] \o <<":", " ">>
                                \o FileName \o <<" ", "|", " ">> \o memo

\* the history holds a text cut to 200 characters and a web page whose URL
\* is longer than that
C13_Witness ==
    /\ Len(diagnosis_history) = 2
    /\ diagnosis_history[1].type = "text"
    /\ Len(SampleOf(diagnosis_history[1].result)) = SampleLen
    /\ diagnosis_history[2].type = "web"
    /\ Len(SampleOf(diagnosis_history[2].result)) > SampleLen


\* app.py 324: what evaluate_result returned to the handler of the last press
Returned == evaluate_result(eval_input)
Stored == Validated /\ last.outcome = "result"

\* C14 as the spec states it: the result a handler stores is the mapping
\* evaluate_result returned, with no field changed or added after the return.
C14_ResultAsReturned ==
    Stored => current_result = Returned

\* C14, amended: the handler writes content_type, version, directives and
\* content_sample into the mapping evaluate_result returned; every field the
\* evaluator set keeps its value, and that one mapping is the result on show
\* and the result of the history's last entry.
C14_EvaluatorFieldsKept ==
    Stored =>
        /\ DOMAIN current_result.obj = DOMAIN Returned.obj \cup MetadataKeys
        /\ DOMAIN Returned.obj \cap MetadataKeys = {}
        /\ \A k \in DOMAIN Returned.obj : current_result.obj[k] = Returned.obj[k]
        /\ result = current_result
        /\ diagnosis_history[Len(diagnosis_history)].result = current_result

\* a text was evaluated with a violation found, and its result stored with
\* the metadata
C14_Witness ==
    /\ Stored
    /\ last.op = "handle_text_analysis"
    /\ IsEvaluated(Returned)
    /\ Returned.obj.violations # Arr(<<>>)
    /\ current_result.obj.content_type = Str("text")


(***************************************************************************)
(* SpecRender: the renderers alone.  The initial state holds a result as a *)
(* handler stores it; a step renders it.                                   *)
(***************************************************************************)
RenderViolation == Obj([category |-> Str("4.1"), points_deducted |-> Num(30)])
Recommendation ==
    Obj([issue |-> Str("vague claim"), current_expression |-> Str("eco"),
         recommended_expression |-> Str("30% recycled plastic")])

\* violation lists of at most n entries: mappings, and numbers in their place
RECURSIVE RenderViolationLists(_)
RenderViolationLists(n) ==
    IF n = 0 THEN {<<>>}
    ELSE LET shorter == RenderViolationLists(n - 1) IN
         shorter \cup {Append(l, v) : l \in {x \in shorter : Len(x) = n - 1},
                                      v \in {RenderViolation, Num(1)}}

RecommendationLists ==
    {<<>>, [i \in 1..SheetRecommendations + 1 |-> Recommendation]}

\* what evaluate_result is given: rubric mappings with and without a score,
\* and the two failure mappings of AIHandler
RenderEvalInputs ==
    {Obj([violations |-> Arr(vs), recommendations |-> Arr(rs), summary |-> Str("ok")]) :
        vs \in RenderViolationLists(MaxRenderViolations), rs \in RecommendationLists}
    \cup {Obj([violations |-> Arr(vs), recommendations |-> Arr(rs),
               summary |-> Str("ok"), score |-> Num(95)]) :
        vs \in RenderViolationLists(MaxRenderViolations), rs \in RecommendationLists}
    \cup {DecodeFailure(JSONDecodeError("Expecting value", <<"x">>, 0), <<"x">>),
          CallFailure("Connection error.")}

\* the sample of a long text, and the URLs of two web pages, one of them
\* longer than a cell of the sheet
RenderSamples ==
    {<<"text", SliceTo(Chars(LongTextLen), SampleLen)>>,
     <<"web", <<"h", "t", "t", "p", "s", ":", "/", "/">> \o Chars(SampleLen)>>,
     <<"web", <<"h", "t", "t", "p", "s", ":", "/", "/">> \o Chars(CellLen)>>}

RenderResults ==
    {WithMetadata(evaluate_result(m), s[1], s[2]) :
        m \in RenderEvalInputs, s \in RenderSamples}

RenderOps == {"export_results", "generate_pdf_report", "generate_word_report"}

InitRender ==
    /\ result \in RenderResults
    /\ current_result = result
    /\ pc = "render"
    /\ model_type = NoHandler
    /\ response = Unset
    /\ reply_src = Unset
    /\ ai_response = Unset
    /\ eval_input = Unset
    /\ diagnosis_history = <<>>
    /\ show_examples = FALSE
    /\ show_history = FALSE
    /\ clock = 0
    /\ last = NoObservation
    /\ tmp_files = {}
    /\ captures = 0
    /\ running = 1
    /\ secrets = NoSecrets
    /\ worksheet = NoWorksheet
    /\ exporters = <<>>
    /\ pdf_replies = <<>>
    /\ peer = NewSession
    /\ frames = <<>>
    /\ frame_replies = <<>>

\* the renderer's output or exception goes to its caller; the result is the
\* mapping the renderer was handed, as the renderer leaves it
Render(op, rendered) ==
    /\ response' = rendered.output
    /\ current_result' = rendered.results
    /\ last' = [op |-> op,
                outcome |-> IF IsException(rendered.output) THEN "raised" ELSE "done",
                calls |-> <<>>]
    /\ UNCHANGED <<model_type, reply_src, ai_response, eval_input, result, pc,
                   diagnosis_history, show_examples, show_history, clock,
                   tmp_files, captures, frames, frame_replies, running, peer, secrets, worksheet, exporters,
                   pdf_replies>>

\* app.py 25-39, 340: auto_save_to_sheet, for every result a handler stored
ExportResults ==
    /\ pc = "render"
    /\ \E service_raises \in BOOLEAN :
          Render("export_results", export_results(current_result, service_raises))

\* app.py 689-693, 718-729: display_result, for a result with success
GeneratePdfReport ==
    /\ pc = "render"
    /\ current_result.obj.success = Bool(TRUE)
    /\ \E build_raises \in BOOLEAN :
          Render("generate_pdf_report", generate_pdf_report(current_result, build_raises))

\* app.py 689-693, 733-744
GenerateWordReport ==
    /\ pc = "render"
    /\ current_result.obj.success = Bool(TRUE)
    /\ \E save_raises \in BOOLEAN :
          Render("generate_word_report", generate_word_report(current_result, save_raises))

NextRender ==
    \/ ExportResults
    \/ GeneratePdfReport
    \/ GenerateWordReport

SpecRender == InitRender /\ [][NextRender]_vars

\* C15: after export_results, generate_pdf_report or generate_word_report
\* has run on a result, completed or ended by an exception, the result is
\* the mapping it was before, field by field.
C15_RenderersReadOnly ==
    last.op \in RenderOps => current_result = result

\* the PDF report of a result failed on a violation that is no mapping, after
\* the result's fields were read
C15_Witness ==
    /\ last.op = "generate_pdf_report"
    /\ last.outcome = "raised"
    /\ response = Exception("AttributeError")
    /\ Len(current_result.obj.violations.arr) = MaxRenderViolations


(***************************************************************************)
(* The video adapters and their temporary files.  NamedTemporaryFile is    *)
(* called with delete=False, so a file stays on disk until os.unlink; a    *)
(* capture stays open until release() / close().  An adapter is modelled   *)
(* by its exit paths: the statement that raises is an input (fault), or    *)
(* follows from the video (frame rate, frame count, audio track).          *)
(***************************************************************************)
MaxTmpFiles == 4
MaxVideoFrames == 2
MaxDuration == 60            \* video_analyzer.py:58

\* twice the frame rate: 0 (no stream), 1 (a frame every two seconds), 2
FpsDoubled == {0, 1, 2}
Videos == [fps2 : FpsDoubled, total_frames : 0..MaxVideoFrames, audio : BOOLEAN]

\* what an adapter returns, the suffixes of the files it leaves on disk, and
\* the number of captures it leaves open
Adapted(value, kept, open) == [value |-> value, kept |-> kept, open |-> open]

\* video_analyzer.py 57-114: returns the timestamps of the frames extracted.
\* The except clause (111-112) prints and falls through to the return; the
\* release and the unlink (106, 109) are the last statements of the try block.
extract_frames_from_video(video, fault) ==
    LET frame_interval == video.fps2 \div 2
        process_duration ==
            IF video.fps2 > 0
            THEN Min((2 * video.total_frames) \div video.fps2, MaxDuration)
            ELSE 0
    IN  \* 75: tmp_file.write raises, the file exists already
        IF fault = "write" THEN Adapted(<<>>, {".mp4"}, 0)
        \* 89: the loop is not entered
        ELSE IF video.total_frames = 0 \/ process_duration = 0
        THEN Adapted(<<>>, {}, 0)
        \* 95: frame_count % 0
        ELSE IF frame_interval = 0 THEN Adapted(<<>>, {".mp4"}, 1)
        \* 99: cv2.imencode raises on the first frame
        ELSE IF fault = "imencode" THEN Adapted(<<>>, {".mp4"}, 1)
        ELSE Adapted([i \in 1..Min(video.total_frames, process_duration) |-> i - 1],
                     {}, 0)

\* video_analyzer.py 116-151: returns whether audio data came back (b"" is
\* FALSE)
extract_audio_from_video(video, fault) ==
    \* 129: tmp_video.write raises
    IF fault = "write" THEN Adapted(FALSE, {".mp4"}, 0)
    \* 133: VideoFileClip raises on a file without a video stream
    ELSE IF video.total_frames = 0 \/ video.fps2 = 0 THEN Adapted(FALSE, {".mp4"}, 0)
    \* 137: video.audio is None
    ELSE IF ~video.audio THEN Adapted(FALSE, {".mp4"}, 1)
    \* 137: write_audiofile raises with the audio file begun
    ELSE IF fault = "write_audiofile" THEN Adapted(FALSE, {".mp4", ".mp3"}, 1)
    ELSE Adapted(TRUE, {}, 0)

\* video_analyzer.py 231-269: returns the mapping of the video's properties,
\* or the mapping {error}
get_video_info(video, fault) ==
    IF fault = "write" THEN Adapted([error |-> "OSError"], {".mp4"}, 0)
    ELSE Adapted([duration_seconds2 |->
                      IF video.fps2 > 0 THEN (4 * video.total_frames) \div video.fps2
                      ELSE 0,
                  fps2 |-> video.fps2, total_frames |-> video.total_frames],
                 {}, 0)

\* video_analyzer.py 12-55: returns whether video data came back (None is
\* FALSE)
download_youtube_video(fault) ==
    \* 24: import yt_dlp raises ImportError, before the file is made
    IF fault = "import" THEN Adapted(FALSE, {}, 0)
    \* 40: ydl.download raises
    ELSE IF fault = "download" THEN Adapted(FALSE, {".mp4"}, 0)
    ELSE Adapted(TRUE, {}, 0)

AdapterOps == {"extract_frames_from_video", "extract_audio_from_video",
               "get_video_info", "download_youtube_video"}

\* tempfile names a file as no file on disk is named
NewPath == CHOOSE n \in 1..MaxTmpFiles + 1 : \A f \in tmp_files : f.path # n

InitAdapters ==
    /\ pc = "adapters"
    /\ model_type = NoHandler
    /\ response = Unset
    /\ reply_src = Unset
    /\ ai_response = Unset
    /\ eval_input = Unset
    /\ result = Unset
    /\ SessionIdle

\* one call of an adapter, from its first statement to its return
Adapt(op, adapted) ==
    /\ Cardinality(tmp_files) < MaxTmpFiles
    /\ tmp_files' = tmp_files \cup {[path |-> NewPath, suffix |-> x] : x \in adapted.kept}
    /\ captures' = captures + adapted.open
    /\ response' = adapted.value
    /\ last' = [op |-> op,
                outcome |-> IF adapted.kept = {} /\ adapted.open = 0
                            THEN "released" ELSE "left behind",
                calls |-> <<>>]
    /\ UNCHANGED <<model_type, reply_src, ai_response, eval_input, result, pc,
                   current_result, diagnosis_history, show_examples, show_history,
                   clock, frames, frame_replies, running, peer, secrets, worksheet, exporters,
                   pdf_replies>>

ExtractFrames ==
    /\ pc = "adapters"
    /\ \E video \in Videos, fault \in {"none", "write", "imencode"} :
          Adapt("extract_frames_from_video", extract_frames_from_video(video, fault))

ExtractAudio ==
    /\ pc = "adapters"
    /\ \E video \in Videos, fault \in {"none", "write", "write_audiofile"} :
          Adapt("extract_audio_from_video", extract_audio_from_video(video, fault))

GetVideoInfo ==
    /\ pc = "adapters"
    /\ \E video \in Videos, fault \in {"none", "write"} :
          Adapt("get_video_info", get_video_info(video, fault))

DownloadYoutubeVideo ==
    /\ pc = "adapters"
    /\ \E fault \in {"none", "import", "download"} :
          Adapt("download_youtube_video", download_youtube_video(fault))

NextAdapters ==
    \/ ExtractFrames
    \/ ExtractAudio
    \/ GetVideoInfo
    \/ DownloadYoutubeVideo

SpecAdapters == InitAdapters /\ [][NextAdapters]_vars

\* C16: whenever an adapter has returned, by its return statement or through
\* its except clause, no temporary file of the adapters is left on disk and
\* no capture is left open.
C16_ResourcesReleased ==
    last.op \in AdapterOps => tmp_files = {} /\ captures = 0


(***************************************************************************)
(* SpecMerge: analyze_video_content alone.  The initial state holds the    *)
(* frames extracted (one a second) and what analyze_image returned for     *)
(* each representative frame; one step integrates them.                    *)
(***************************************************************************)
MaxMergeFrames == 3

MergeViolation == Obj([category |-> Str("4.1")])
\* a violation that brings a timestamp of its own
StampedViolation == Obj([category |-> Str("4.2"), timestamp |-> Num(99)])

\* what analyze_image returns for a frame: a mapping without violations, with
\* one, with two, with the same one twice, the mapping of a failed call, a
\* list, and a mapping whose violation is a string
FrameReplies ==
    {Obj([summary |-> Str("ok")]),
     Obj([violations |-> Arr(<<MergeViolation>>)]),
     Obj([violations |-> Arr(<<StampedViolation, MergeViolation>>)]),
     Obj([violations |-> Arr(<<MergeViolation, MergeViolation>>)]),
     CallFailure("Connection error."),
     Arr(<<MergeViolation>>),
     Obj([violations |-> Arr(<<Str("x")>>)])}

InitMerge ==
    /\ \E n \in 0..MaxMergeFrames : frames = [i \in 1..n |-> FrameTimestamp(i - 1)]
    /\ frame_replies \in
         [1..(IF frames = <<>> THEN 0 ELSE Len(FrameCallIndices(Len(frames))))
            -> FrameReplies]
    /\ pc = "merge"
    /\ model_type = NoHandler
    /\ response = Unset
    /\ reply_src = Unset
    /\ ai_response = Unset
    /\ eval_input = Unset
    /\ result = Unset
    /\ current_result = None
    /\ diagnosis_history = <<>>
    /\ show_examples = FALSE
    /\ show_history = FALSE
    /\ clock = 0
    /\ last = NoObservation
    /\ tmp_files = {}
    /\ captures = 0
    /\ running = 1
    /\ secrets = NoSecrets
    /\ worksheet = NoWorksheet
    /\ exporters = <<>>
    /\ pdf_replies = <<>>
    /\ peer = NewSession

\* video_analyzer.py 153-229
AnalyzeVideoContent ==
    /\ pc = "merge"
    /\ ai_response' = analyze_video_content(Len(frames), frame_replies)
    /\ pc' = "analyze_video_content"
    /\ UNCHANGED <<model_type, response, reply_src, eval_input, result,
                   current_result, diagnosis_history, show_examples,
                   show_history, clock, last, tmp_files, captures,
                   frames, frame_replies, running, peer, secrets, worksheet, exporters,
                   pdf_replies>>

NextMerge == AnalyzeVideoContent

SpecMerge == InitMerge /\ [][NextMerge]_vars

\* the violations a frame's analysis carries
FrameViolations(r) ==
    IF IsDict(r) /\ "violations" \in DOMAIN r.obj /\ IsArr(r.obj.violations)
    THEN r.obj.violations.arr ELSE <<>>

\* the number of violations the first k calls returned
RECURSIVE MergedBefore(_)
MergedBefore(k) ==
    IF k = 0 THEN 0
    ELSE MergedBefore(k - 1) + Len(FrameViolations(frame_replies[k]))

Untagged(v) == [key \in DOMAIN v.obj \ {"timestamp"} |-> v.obj[key]]

Merged == pc = "analyze_video_content" /\ IsDict(ai_response)
                /\ "violations" \in DOMAIN ai_response.obj

\* C17: the violation list of the integrated result is the violations of the
\* first call's frame, then those of the second's, then those of the third's,
\* each list in its own order and whole, repeated violations included; every
\* violation carries the timestamp of the frame its call analysed.
C17_MergeIsConcatenation ==
    Merged =>
        LET merged == ai_response.obj.violations.arr
            idx == FrameCallIndices(Len(frames))
        IN  /\ Len(merged) = MergedBefore(Len(frame_replies))
            /\ \A k \in 1..Len(frame_replies) :
                 \A i \in 1..Len(FrameViolations(frame_replies[k])) :
                    LET v == merged[MergedBefore(k - 1) + i] IN
                    /\ Untagged(v) = Untagged(FrameViolations(frame_replies[k])[i])
                    /\ v.obj.timestamp = Num(frames[idx[k] + 1])
            /\ \A i \in 1..Len(merged) - 1 :
                 merged[i].obj.timestamp.num <= merged[i + 1].obj.timestamp.num

\* two frames, the second analysed twice: the first frame's repeated
\* violation is there twice, and the second frame's two violations are there
\* once for each of its calls
C17_Witness ==
    /\ Merged
    /\ Len(frames) = 2
    /\ Len(ai_response.obj.violations.arr) = 6
    /\ ai_response.obj.violations.arr[1] = ai_response.obj.violations.arr[2]
    /\ ai_response.obj.violations.arr[3].obj.timestamp = Num(1)
    /\ ai_response.obj.violations.arr[3] = ai_response.obj.violations.arr[5]

\* the calls, by position, that analysed the frame of index idx
CallsOfFrame(idx) ==
    {k \in 1..Len(frame_replies) : FrameCallIndices(Len(frames))[k] = idx}

\* C25: the representative frames first, middle and last are analysed, each
\* extracted frame at most once: analyzed_frames is at most 3 and at most
\* frame_count, and no frame's violations are merged more than once
C25_EachFrameOnce ==
    Merged =>
        /\ ai_response.obj.analyzed_frames.num <= 3
        /\ ai_response.obj.analyzed_frames.num <= ai_response.obj.frame_count.num
        /\ \A idx \in 0..Len(frames) - 1 : Cardinality(CallsOfFrame(idx)) <= 1

\* the adapter has run on a video with at least one frame
VideoAnalysed == pc = "analyze_video_content" /\ frames # <<>>

FixedVideoScore(r) ==
    /\ IsDict(r)
    /\ Get(r.obj, "score", None) = Num(50)
    /\ Get(r.obj, "overall_risk", None) = Str("Medium Risk")

\* C26: for every video with at least one extracted frame
\* analyze_video_content returns score 50 and overall_risk "Medium Risk",
\* whatever the frame analyses report, and the evaluated result has that
\* score and tier
C26_VideoAlwaysMedium ==
    VideoAnalysed =>
        /\ FixedVideoScore(ai_response)
        /\ FixedVideoScore(evaluate_result(ai_response))


(***************************************************************************)
(* SpecPdfMerge: analyze_pdf_content alone.  The initial state holds what  *)
(* analyze_text returned for the text of the document and, when a page     *)
(* image was extracted, what analyze_image returned for the first page;    *)
(* one step merges them.                                                   *)
(***************************************************************************)
PageViolation == Obj([category |-> Str("4.3")])

\* what analyze_text returns for the text: a mapping without violations,
\* with none, one or two of them, with null there, the mappings of a failed
\* call and of a failed decode, and a list
PdfTextReplies ==
    {Obj([summary |-> Str("ok")]),
     Obj([violations |-> Arr(<<>>), summary |-> Str("ok")]),
     Obj([violations |-> Arr(<<MergeViolation>>)]),
     Obj([violations |-> Arr(<<MergeViolation, StampedViolation>>)]),
     Obj([violations |-> None]),
     CallFailure("Connection error."),
     DecodeFailure(JSONDecodeError("Expecting value", <<"x">>, 0), <<"x">>),
     Arr(<<MergeViolation>>)}

\* what analyze_image returns for the first page
PdfImageReplies ==
    {Obj([summary |-> Str("ok")]),
     Obj([violations |-> Arr(<<>>)]),
     Obj([violations |-> Arr(<<PageViolation>>)]),
     Obj([violations |-> Arr(<<PageViolation, MergeViolation>>)]),
     Obj([violations |-> Arr(<<PageViolation, PageViolation>>)]),
     Obj([violations |-> None]),
     CallFailure("Connection error."),
     Arr(<<PageViolation>>)}

InitPdfMerge ==
    /\ pdf_replies \in {<<t>> : t \in PdfTextReplies}
                       \cup {<<t, i>> : t \in PdfTextReplies, i \in PdfImageReplies}
    /\ pc = "merge"
    /\ model_type = NoHandler
    /\ response = Unset
    /\ reply_src = Unset
    /\ ai_response = Unset
    /\ eval_input = Unset
    /\ result = Unset
    /\ current_result = None
    /\ diagnosis_history = <<>>
    /\ show_examples = FALSE
    /\ show_history = FALSE
    /\ clock = 0
    /\ last = NoObservation
    /\ tmp_files = {}
    /\ captures = 0
    /\ running = 1
    /\ secrets = NoSecrets
    /\ worksheet = NoWorksheet
    /\ exporters = <<>>
    /\ peer = NewSession
    /\ frames = <<>>
    /\ frame_replies = <<>>

\* pdf_analyzer.py 70-138
AnalyzePdfContent ==
    /\ pc = "merge"
    /\ ai_response' = analyze_pdf_content(Head(pdf_replies), Tail(pdf_replies))
    /\ pc' = "analyze_pdf_content"
    /\ UNCHANGED <<model_type, response, reply_src, eval_input, result,
                   current_result, diagnosis_history, show_examples,
                   show_history, clock, last, tmp_files, captures,
                   frames, frame_replies, running, peer, secrets, worksheet,
                   exporters, pdf_replies>>

NextPdfMerge == AnalyzePdfContent

SpecPdfMerge == InitPdfMerge /\ [][NextPdfMerge]_vars

\* the violations a reply carries as a list
ListedViolations(r) ==
    IF IsDict(r) /\ "violations" \in DOMAIN r.obj /\ IsArr(r.obj.violations)
    THEN r.obj.violations.arr ELSE <<>>

\* the text analysis returned a mapping that is no error, and the analysis of
\* the first page image returned violations
PageViolationsFound ==
    /\ pc = "analyze_pdf_content"
    /\ Len(pdf_replies) = 2
    /\ IsDict(pdf_replies[1]) /\ "error" \notin DOMAIN pdf_replies[1].obj
    /\ ListedViolations(pdf_replies[2]) # <<>>

\* C29: whenever the text analysis returned a non-error mapping and the
\* image analysis of the first page returned violations, the result returned
\* holds every image violation, after all violations of the text analysis and
\* in the order the image analysis gave them
C29_ImageViolationsKept ==
    PageViolationsFound =>
        /\ IsDict(ai_response)
        /\ ListedViolations(ai_response)
              = ListedViolations(pdf_replies[1]) \o ListedViolations(pdf_replies[2])


(***************************************************************************)
(* SpecSessions: two browser sessions of app.py.  Streamlit runs the       *)
(* script once per user action of one session, with st.session_state      *)
(* bound to that session; app.py keeps all it stores in st.session_state   *)
(* (49-53, 332-337) and has no module-level variable it writes.  The        *)
(* session variables are those of the session whose run is observed, peer  *)
(* holds the other session's, and the time is the one clock of the server. *)
(***************************************************************************)
Sessions == {1, 2}

Mine ==
    [current_result |-> current_result, diagnosis_history |-> diagnosis_history,
     show_examples |-> show_examples, show_history |-> show_history]

\* a server that keeps the history in a list of the module, which every
\* session's run appends to and reads
Switch_SharedHistory ==
    /\ running' = 3 - running
    /\ peer' = Mine
    /\ current_result' = peer.current_result
    /\ diagnosis_history' = diagnosis_history
    /\ show_examples' = peer.show_examples
    /\ show_history' = peer.show_history
    /\ model_type' = NoHandler
    /\ ai_response' = Unset
    /\ eval_input' = Unset
    /\ result' = Unset
    /\ last' = NoObservation
    /\ UNCHANGED <<response, reply_src, pc, tmp_files, captures, frames,
                   frame_replies, clock, secrets, worksheet, exporters,
                   pdf_replies>>

\* the next user action comes from the other session: its run starts with
\* its own st.session_state (app.py 49-53 initialise it once per session)
\* and with no local of the run before
Switch ==
    /\ running' = 3 - running
    /\ peer' = Mine
    /\ current_result' = peer.current_result
    /\ diagnosis_history' = peer.diagnosis_history
    /\ show_examples' = peer.show_examples
    /\ show_history' = peer.show_history
    /\ model_type' = NoHandler
    /\ ai_response' = Unset
    /\ eval_input' = Unset
    /\ result' = Unset
    /\ last' = NoObservation
    /\ UNCHANGED <<response, reply_src, pc, tmp_files, captures, frames,
                   frame_replies, clock, secrets, worksheet, exporters,
                   pdf_replies>>

\* the analyses of the five tabs, the sidebar's way back to the tabs and its
\* clear-history button, in either session
NextSessions ==
    \/ handle_text_analysis
    \/ handle_image_analysis
    \/ handle_pdf_analysis
    \/ handle_video_analysis
    \/ handle_web_analysis
    \/ HomeSidebar
    \/ ClearHistory
    \/ Switch

SpecSessions == Init /\ [][NextSessions]_vars

\* st.session_state of session s
SessionState(s) == IF running = s THEN Mine ELSE peer

\* C18: whatever the interleaving of the two sessions' actions, the state of
\* a session changes only in a step of its own run: a step of the other
\* session, and the change from one session's run to the other's, leave its
\* current_result, its diagnosis_history and its views as they are.
C18_SessionsIndependent ==
    [][\A s \in Sessions :
          \/ running = s /\ running' = s
          \/ SessionState(s)' = SessionState(s)]_vars

\* session 1 analysed first, session 2 after it, and session 1 is running
\* again: each history holds the session's own entry
C18_Witness ==
    /\ running = 1
    /\ secrets = NoSecrets
    /\ worksheet = NoWorksheet
    /\ exporters = <<>>
    /\ pdf_replies = <<>>
    /\ Len(diagnosis_history) = 1
    /\ diagnosis_history[1].timestamp = 1
    /\ Len(peer.diagnosis_history) = 1
    /\ peer.diagnosis_history[1].timestamp = 2
    /\ peer.diagnosis_history[1].type # diagnosis_history[1].type


\* C19: when the history view is rendered on a history that is not empty, it
\* lists the stored entries, newest first by timestamp, each stored entry
\* once.
C19_HistoryListed ==
    (~show_examples /\ show_history /\ diagnosis_history # <<>>) =>
        /\ last.op = "show_diagnosis_history"
        /\ last.outcome = "listed"
        /\ Len(last.listing) = Len(diagnosis_history)
        /\ \A i \in 1..Len(last.listing) - 1 :
              last.listing[i].timestamp >= last.listing[i + 1].timestamp
        /\ \E p \in [1..Len(diagnosis_history) -> 1..Len(diagnosis_history)] :
              /\ \A i, j \in DOMAIN p : p[i] = p[j] => i = j
              /\ \A i \in DOMAIN p : last.listing[i] = diagnosis_history[p[i]]

\* C28: every entry of every reachable diagnosis_history can be rendered by
\* the history view: each stored result, a Rejected one too, has a score and an
\* overall_risk, so that the average score, the High Risk count and the titles
\* of the entries are computed without failure
C28_HistoryRenderable ==
    /\ \A i \in 1..Len(diagnosis_history) :
          {"score", "overall_risk"} \subseteq DOMAIN diagnosis_history[i].result.obj
    /\ ~StatisticsRaise(diagnosis_history)
    /\ last.op = "show_diagnosis_history" => last.outcome = "listed"



(***************************************************************************)
(* Validation before the backend is called                                 *)
(***************************************************************************)
\* the input an analysis may run on: a text of at least 10 characters, a memo
\* of at least 5 characters once trimmed, a URL of scheme http or https
InputPasses(op, input) ==
    CASE op = "handle_text_analysis" -> Len(input) >= 10
      [] op \in {"handle_image_analysis", "handle_pdf_analysis",
                 "handle_video_analysis"} -> Len(strip(input)) >= 5
      [] op = "handle_web_analysis" ->
            \/ startswith(input, <<"h", "t", "t", "p", ":", "/", "/">>)
            \/ startswith(input, <<"h", "t", "t", "p", "s", ":", "/", "/">>)

MayCall(observation) ==
    /\ observation.entered.api_key # ""
    /\ InputPasses(observation.op, observation.entered.input)

\* C20: an analysis action calls the AI backend only when the API key is
\* non-empty and the input passes validation (text: 10 characters or more;
\* image, PDF, video: a memo of 5 or more after trimming; web: a URL starting
\* with http:// or https://); an action that is rejected makes no call and
\* leaves current_result and diagnosis_history as they were
C20_NoCallUnlessValid ==
    [][last'.op \in AnalysisOps =>
          /\ last'.calls # <<>> => MayCall(last')
          /\ ~MayCall(last') =>
                /\ last'.outcome \in {"no_api_key", "invalid_input"}
                /\ last'.calls = <<>>
                /\ current_result' = current_result
                /\ diagnosis_history' = diagnosis_history]_vars

\* a memo of six characters, four of them once trimmed, is rejected though the
\* key is given, after an analysis that was stored
C20_Witness ==
    /\ Refused
    /\ last.outcome = "invalid_input"
    /\ last.entered.api_key # ""
    /\ last.op = "handle_video_analysis"
    /\ Len(last.entered.input) = 6
    /\ Len(strip(last.entered.input)) = 4
    /\ Len(diagnosis_history) = 1


(***************************************************************************)
(* SpecAutoSave: the session of a deployment whose secrets name a          *)
(* spreadsheet.  Each completed analysis is exported to the worksheet, and *)
(* each call of the sheet service can fail.                                *)
(***************************************************************************)
SheetSecrets ==
    {NoSecrets,
     [spreadsheet_id |-> "sheet", worksheet_name |-> "", credentials |-> TRUE],
     [spreadsheet_id |-> "sheet", worksheet_name |-> "results", credentials |-> FALSE],
     [spreadsheet_id |-> "sheet", worksheet_name |-> "results", credentials |-> TRUE]}

InitAutoSave ==
    /\ model_type = NoHandler
    /\ response = Unset
    /\ reply_src = Unset
    /\ pc = "session"
    /\ ai_response = Unset
    /\ eval_input = Unset
    /\ result = Unset
    /\ current_result = None
    /\ diagnosis_history = <<>>
    /\ show_examples = FALSE
    /\ show_history = FALSE
    /\ clock = 0
    /\ last = NoObservation
    /\ tmp_files = {}
    /\ captures = 0
    /\ running = 1
    /\ peer = NewSession
    /\ frames = <<>>
    /\ frame_replies = <<>>
    /\ exporters = <<>>
    /\ pdf_replies = <<>>
    /\ secrets \in SheetSecrets
    /\ worksheet = NoWorksheet

NextAutoSave ==
    \/ handle_text_analysis
    \/ handle_pdf_analysis
    \/ HomeSidebar

SpecAutoSave == InitAutoSave /\ [][NextAutoSave]_vars


\* the content type a handler labels its results with
TypeLabel(op) ==
    CASE op = "handle_text_analysis" -> "text"
      [] op = "handle_image_analysis" -> "image"
      [] op = "handle_pdf_analysis" -> "PDF"
      [] op = "handle_video_analysis" -> "video"
      [] op = "handle_web_analysis" -> "web"

\* C21: an analysis action updates the session all or nothing.  A run that
\* completes sets current_result to the new result and appends exactly one
\* entry with that result, its timestamp and its content type; a run in which
\* the analysis or the evaluation raises changes neither current_result nor
\* diagnosis_history; and this is so whether the export to the spreadsheet
\* succeeded, failed or was not configured.
C21_AllOrNothing ==
    [][last'.op \in AnalysisOps =>
          /\ last'.outcome = "result" =>
                /\ current_result' # None
                /\ current_result' = result'
                /\ current_result'.obj.content_type = Str(TypeLabel(last'.op))
                /\ diagnosis_history' =
                       Append(diagnosis_history,
                              [timestamp |-> clock', type |-> TypeLabel(last'.op),
                               result |-> current_result'])
                /\ \A i \in 1..Len(diagnosis_history) :
                       diagnosis_history[i].timestamp < clock'
          /\ last'.outcome = "raised" =>
                /\ current_result' = current_result
                /\ diagnosis_history' = diagnosis_history
          /\ last'.outcome \in {"result", "raised", "no_api_key", "invalid_input"}]_vars

\* an analysis completed and is stored although its export failed at the last
\* call: the worksheet was created and holds its header row only
C21_Witness ==
    /\ AnalysisRan
    /\ last.outcome = "result"
    /\ ~last.saved
    /\ Configured(secrets) /\ secrets.credentials
    /\ worksheet = Worksheet(<<Headers>>)
    /\ Len(diagnosis_history) = 1
    /\ current_result = diagnosis_history[1].result


(***************************************************************************)
(* The views of the session                                                *)
(***************************************************************************)
\* the last script run was started by this button
Pressed(button) ==
    /\ last.op \in {"none", "show_diagnosis_history"}
    /\ last # NoObservation
    /\ last.pressed = button

\* C22: the sidebar's home button can be pressed in every reachable state of
\* the session; it sets current_result to None and show_examples and
\* show_history to false, the run it starts renders the analysis tabs, and
\* diagnosis_history is left as it was
C22_HomeResets ==
    /\ [](ENABLED HomeSidebar)
    /\ [][Pressed("home_sidebar")' =>
             /\ current_result' = None
             /\ ~show_examples' /\ ~show_history'
             /\ last'.view = "tabs"
             /\ TabsVisible'
             /\ diagnosis_history' = diagnosis_history]_vars

\* the home button was pressed in a session that has analysed twice
C22_Witness ==
    /\ Pressed("home_sidebar")
    /\ last.view = "tabs"
    /\ current_result = None
    /\ Len(diagnosis_history) = 2


\* C23: displaying the analysis result has top priority: in every reachable
\* state in which current_result is not None the view rendered is the result
\* view, not the example library, the history view or the tabs
C23_ResultViewFirst ==
    current_result # None =>
        RenderedView(show_examples, show_history, current_result) = "result"


(***************************************************************************)
(* The automatic export and its notice                                     *)
(***************************************************************************)
ResultOnShow == RenderedView(show_examples, show_history, current_result) = "result"

\* C24: whenever the result view shows the notice that the result was saved
\* to the spreadsheet, the worksheet holds a data row of that result
C24_NoticeMeansSaved ==
    (ResultOnShow /\ display_result(current_result, secrets).saved_notice) =>
        /\ worksheet.exists
        /\ \E i \in 1..Len(worksheet.rows) :
              worksheet.rows[i] = SheetRow(current_result.obj)


(***************************************************************************)
(* SpecExport: two sessions export a result each to the same spreadsheet,  *)
(* whose target worksheet does not exist.  export_results is a sequence of *)
(* calls of the sheet service; the calls of the two exporters interleave   *)
(* in every order, and no call fails for a reason of its own.              *)
(***************************************************************************)
\* the results exported: without a violation, with one, and a Rejected one
ExportedResults ==
    {WithMetadata(evaluate_result(m), "text", Chars(MinTextLen)) :
        m \in {Obj([violations |-> Arr(<<>>), summary |-> Str("ok")]),
               Obj([violations |-> Arr(<<RenderViolation>>), summary |-> Str("ok")]),
               CallFailure("Connection error.")}}

\* sheets_exporter.py 44: the call begins
Exporter(results) == [pc |-> "open_by_key", results |-> results]

InitExport ==
    /\ exporters \in [Sessions -> {Exporter(r) : r \in ExportedResults}]
    /\ worksheet = NoWorksheet
    /\ secrets = [spreadsheet_id |-> "sheet", worksheet_name |-> "results",
                  credentials |-> TRUE]
    /\ pc = "export"
    /\ model_type = NoHandler
    /\ response = Unset
    /\ reply_src = Unset
    /\ ai_response = Unset
    /\ eval_input = Unset
    /\ result = Unset
    /\ current_result = None
    /\ diagnosis_history = <<>>
    /\ show_examples = FALSE
    /\ show_history = FALSE
    /\ clock = 0
    /\ last = NoObservation
    /\ tmp_files = {}
    /\ captures = 0
    /\ running = 1
    /\ peer = NewSession
    /\ frames = <<>>
    /\ frame_replies = <<>>
    /\ pdf_replies = <<>>

\* a step of the exporter of session s, from position from to position to
ExportStep(s, from, to) ==
    /\ exporters[s].pc = from
    /\ exporters' = [exporters EXCEPT ![s].pc = to]
    /\ UNCHANGED <<model_type, response, reply_src, ai_response, eval_input, result,
                   pc, current_result, diagnosis_history, show_examples,
                   show_history, clock, last, tmp_files, captures, frames,
                   frame_replies, running, peer, secrets, pdf_replies>>

\* sheets_exporter.py 44
OpenByKey(s) ==
    /\ ExportStep(s, "open_by_key", "worksheet")
    /\ UNCHANGED worksheet

\* sheets_exporter.py 49-52: the worksheet is looked up by its name
GetWorksheet(s) ==
    /\ ExportStep(s, "worksheet", IF worksheet.exists THEN "append_row" ELSE "add_worksheet")
    /\ UNCHANGED worksheet

\* sheets_exporter.py 53-57: WorksheetNotFound was caught.  The service
\* refuses a second worksheet of the same title with an APIError, which
\* export_results raises again (87-91)
AddWorksheet(s) ==
    /\ ExportStep(s, "add_worksheet", IF worksheet.exists THEN "raised" ELSE "append_headers")
    /\ worksheet' = IF worksheet.exists THEN worksheet ELSE Worksheet(<<>>)

\* sheets_exporter.py 58-65
AppendHeaders(s) ==
    /\ ExportStep(s, "append_headers", "append_row")
    /\ worksheet' = Worksheet(Append(worksheet.rows, Headers))

\* sheets_exporter.py 67-86: the row is computed and appended, and True returned
AppendRow(s) ==
    LET row == export_results(exporters[s].results, FALSE).output IN
    /\ ExportStep(s, "append_row", IF IsException(row) THEN "raised" ELSE "returned")
    /\ worksheet' = IF IsException(row) THEN worksheet
                    ELSE Worksheet(Append(worksheet.rows, row))

NextExport ==
    \E s \in Sessions :
        \/ OpenByKey(s)
        \/ GetWorksheet(s)
        \/ AddWorksheet(s)
        \/ AppendHeaders(s)
        \/ AppendRow(s)

SpecExport == InitExport /\ [][NextExport]_vars

HeaderRows == {i \in 1..Len(worksheet.rows) : worksheet.rows[i] = Headers}

\* the data rows of the worksheet that hold the result of r
RowsOf(r) ==
    {i \in 1..Len(worksheet.rows) : worksheet.rows[i] = SheetRow(r.obj)}

\* C30: when two sessions export at once to a spreadsheet without the target
\* worksheet, in every interleaving the worksheet is created once, the header
\* row is written exactly once and before any data row, and every export
\* appends exactly one data row: none is lost
C30_ConcurrentExports ==
    /\ \A s \in Sessions : exporters[s].pc # "raised"
    /\ Cardinality(HeaderRows) <= 1
    /\ worksheet.rows # <<>> => worksheet.rows[1] = Headers
    /\ (\A s \in Sessions : exporters[s].pc = "returned") =>
          /\ Len(worksheet.rows) = 1 + Cardinality(Sessions)
          /\ \A s \in Sessions : RowsOf(exporters[s].results) # {}

=============================================================================
